---- MODULE Spec2Model ----
(***************************************************************************)
(* Veritas: the client-side image-authenticity engine                      *)
(* (analyzeImageForDeepfake and its four analyzers) as a state machine.    *)
(*                                                                         *)
(* Numbers.  The source computes with IEEE-754 doubles.  The model         *)
(* computes the same quantities exactly:                                   *)
(*   - a channel value is the integer 0..255 of the pixel buffer           *)
(*     (value / 255 in the source);                                        *)
(*   - a luma value is the integer 299 R + 587 G + 114 B, in units of      *)
(*     1 / LumaUnit (0.299 r + 0.587 g + 0.114 b in the source);           *)
(*   - a variance or a product of sums is a natural number of arbitrary    *)
(*     size (a Big: base-10000 limbs, least significant first);            *)
(*   - a score or a confidence is a fixed-point number with four decimals   *)
(*     (an integer in units of 1 / Scale).                                 *)
(* Every comparison the source makes is made on these exact values.  The   *)
(* one place where double rounding decides the outcome of a comparison of  *)
(* the source for the inputs used here (the mean of a constant channel in  *)
(* calculateCorrelation) is modelled by MeanIsExact.                       *)
(*                                                                         *)
(* The running totals of the source (steps of 0.1 and 0.05) and its        *)
(* weighted sum carry a double rounding error of the order of 1e-14, which *)
(* the exact totals here do not: a confidence that is exactly n + 0.5      *)
(* here may be rounded by Math.round to n there.  No property below rests  *)
(* on a value that lies on a threshold.                                    *)
(*                                                                         *)
(* Arrays.  A JavaScript array or typed array a[0], ..., a[n-1] is the     *)
(* sequence <<a[0], ..., a[n-1]>>; At(a, i) is a[i].                       *)
(***************************************************************************)
EXTENDS Integers, Sequences, FiniteSets, TLC

(***************************************************************************)
(* Exact natural-number arithmetic beyond 32 bits.                         *)
(***************************************************************************)
BigBase == 100 * 100

RECURSIVE BigOf(_)
BigOf(n) == IF n = 0 THEN <<>> ELSE <<n % BigBase>> \o BigOf(n \div BigBase)

BigRest(a) == IF a = <<>> THEN <<>> ELSE Tail(a)

BigLow(a) == IF a = <<>> THEN 0 ELSE Head(a)

RECURSIVE BigAddC(_, _, _)
BigAddC(a, b, c) ==
  IF a = <<>> /\ b = <<>>
  THEN BigOf(c)
  ELSE LET s == BigLow(a) + BigLow(b) + c
       IN <<s % BigBase>> \o BigAddC(BigRest(a), BigRest(b), s \div BigBase)

BigAdd(a, b) == BigAddC(a, b, 0)

RECURSIVE BigStrip(_)
BigStrip(a) ==
  IF a = <<>> THEN <<>>
  ELSE IF a[Len(a)] = 0 THEN BigStrip(SubSeq(a, 1, Len(a) - 1))
  ELSE a

RECURSIVE BigSubB(_, _, _)
BigSubB(a, b, c) ==
  IF a = <<>>
  THEN <<>>
  ELSE LET d == BigLow(a) - BigLow(b) - c
       IN IF d < 0
          THEN <<d + BigBase>> \o BigSubB(BigRest(a), BigRest(b), 1)
          ELSE <<d>> \o BigSubB(BigRest(a), BigRest(b), 0)

RECURSIVE BigLessFrom(_, _, _)
BigLessFrom(a, b, i) ==
  IF i = 0 THEN FALSE
  ELSE IF a[i] # b[i] THEN a[i] < b[i]
  ELSE BigLessFrom(a, b, i - 1)

BigLess(a, b) ==
  IF Len(a) # Len(b) THEN Len(a) < Len(b) ELSE BigLessFrom(a, b, Len(a))

\* a - b for a >= b
BigSub(a, b) == BigStrip(BigSubB(a, b, 0))

BigAbsDiff(a, b) == IF BigLess(a, b) THEN BigSub(b, a) ELSE BigSub(a, b)

\* a * k for a small k (k * BigBase fits in 31 bits)
RECURSIVE BigScaleC(_, _, _)
BigScaleC(a, k, c) ==
  IF a = <<>>
  THEN BigOf(c)
  ELSE LET s == Head(a) * k + c
       IN <<s % BigBase>> \o BigScaleC(Tail(a), k, s \div BigBase)

BigScale(a, k) == IF k = 0 THEN <<>> ELSE BigScaleC(a, k, 0)

BigShift(a) == IF a = <<>> THEN <<>> ELSE <<0>> \o a

RECURSIVE BigMul(_, _)
BigMul(a, b) ==
  IF b = <<>> THEN <<>>
  ELSE BigAdd(BigScale(a, Head(b)), BigShift(BigMul(a, BigRest(b))))

\* the product of two naturals below 2^31
Times(m, n) == BigMul(BigOf(m), BigOf(n))

RatOf(p, q) == [num |-> BigOf(p), den |-> BigOf(q)]

\* a JavaScript number that is NaN: 0 / 0
NaN == [num |-> <<>>, den |-> <<>>]

IsNaN(a) == a.den = <<>>

\* a < b; false when either side is NaN, as in JavaScript
RatLess(a, b) ==
  /\ ~IsNaN(a)
  /\ ~IsNaN(b)
  /\ BigLess(BigMul(a.num, b.den), BigMul(b.num, a.den))

\* Math.abs(a - b)
RatAbsDiff(a, b) ==
  IF IsNaN(a) \/ IsNaN(b) THEN NaN
  ELSE [num |-> BigAbsDiff(BigMul(a.num, b.den), BigMul(b.num, a.den)),
        den |-> BigMul(a.den, b.den)]

RECURSIVE SumOver(_, _, _)
SumOver(F(_), lo, hi) ==
  IF lo > hi THEN 0
  ELSE IF lo = hi THEN F(lo)
  ELSE LET mid == (lo + hi) \div 2
       IN SumOver(F, lo, mid) + SumOver(F, mid + 1, hi)

RECURSIVE BigSumOver(_, _, _)
BigSumOver(F(_), lo, hi) ==
  IF lo > hi THEN <<>>
  ELSE IF lo = hi THEN F(lo)
  ELSE LET mid == (lo + hi) \div 2
       IN BigAdd(BigSumOver(F, lo, mid), BigSumOver(F, mid + 1, hi))

\* the array <<F(lo), ..., F(hi)>>, as a loop that pushes F(lo), ..., F(hi) builds it
RECURSIVE ArrayFrom(_, _, _)
ArrayFrom(F(_), lo, hi) ==
  IF lo > hi THEN <<>>
  ELSE IF lo = hi THEN <<F(lo)>>
  ELSE LET mid == (lo + hi) \div 2
       IN ArrayFrom(F, lo, mid) \o ArrayFrom(F, mid + 1, hi)

\* the array F(lo) \o ... \o F(hi)
RECURSIVE Concat(_, _, _)
Concat(F(_), lo, hi) ==
  IF lo > hi THEN <<>>
  ELSE IF lo = hi THEN F(lo)
  ELSE LET mid == (lo + hi) \div 2
       IN Concat(F, lo, mid) \o Concat(F, mid + 1, hi)

Min(a, b) == IF a < b THEN a ELSE b

Max(a, b) == IF a > b THEN a ELSE b

Abs(a) == IF a < 0 THEN 0 - a ELSE a

\* the values start, start + step, ... below limit: for (v = start; v < limit; v += step)
Steps(start, limit, step) ==
  {start + step * k : k \in 0..((limit - 1 - start) \div step)}

\* the value of an array element read past the end of the array
Undefined == 0 - 1

\* A JavaScript array a[0], ..., a[n-1] is the sequence <<a[0], ..., a[n-1]>>:
\* its length, and its element a[i], undefined past the end
Length(values) == Cardinality(DOMAIN values)

At(array, i) == IF i + 1 \in DOMAIN array THEN array[i + 1] ELSE Undefined

(***************************************************************************)
(* Units.                                                                  *)
(***************************************************************************)
\* a luma value v stands for v / LumaUnit
LumaUnit == 255 * 1000

\* a score s stands for s / Scale
Scale == 100 * 100


(***************************************************************************)
(* Helpers of the detector.                                                *)
(***************************************************************************)
\* the sum of the squares of values[0..n-1] (each below 2^18), as a Big
SumOfSquares(values, n) ==
  LET hi(k) == values[k] \div 500
      lo(k) == values[k] % 500
  IN BigAdd(Times(250000, SumOver(LAMBDA k : hi(k) * hi(k), 1, n)),
            BigAdd(Times(1000, SumOver(LAMBDA k : hi(k) * lo(k), 1, n)),
                   BigOf(SumOver(LAMBDA k : lo(k) * lo(k), 1, n))))

\* calculateVariance of an array of luma values: sum (v - mean)^2 / n, which is
\* (n * sum v^2 - (sum v)^2) / (n^2 * LumaUnit^2); 0 for the empty array, NaN
\* when an element is undefined
calculateVariance(values) ==
  LET n == Length(values)
      total == SumOver(LAMBDA k : values[k], 1, n)
  IN IF n = 0 THEN RatOf(0, 1)
     ELSE IF \E k \in DOMAIN values : values[k] = Undefined THEN NaN
     ELSE [num |-> BigSub(BigScale(SumOfSquares(values, n), n), Times(total, total)),
           den |-> BigMul(Times(n, n), Times(LumaUnit, LumaUnit))]

\* calculateVariance of an array of variances (numbers with one denominator)
calculateVarianceOfVariances(values) ==
  LET n == Length(values)
      total == BigSumOver(LAMBDA k : values[k].num, 1, n)
      squares == BigSumOver(LAMBDA k : BigMul(values[k].num, values[k].num), 1, n)
  IN IF n = 0 THEN RatOf(0, 1)
     ELSE [num |-> BigSub(BigScale(squares, n), BigMul(total, total)),
           den |-> BigMul(Times(n, n), BigMul(values[1].den, values[1].den))]

\* Whether the double mean of n copies of the channel value v / 255 is v / 255
\* again (lines 1032-1033): the sum of n copies of 0 or of 1 is exact; the sum of
\* n copies of 128 / 255 is rounded, and the mean is off from 128 / 255 from
\* n = 34 on.  Channels that are constant take the values 0, 128 and 255 here.
MeanIsExact(v, n) == v \in {0, 255} \/ n < 34

\* calculateCorrelation(x, y) squared.  With N = n sum xy - sum x sum y,
\* SX = n sum x^2 - (sum x)^2 and SY likewise, the source's numerator is N / n
\* and its denominator sqrt(SX * SY) / n.  When both channels are constant the
\* sums of squares are 0 exactly when the means are exact; otherwise every
\* dx is one rounding residue and every dy another, and the result is 1.
calculateCorrelation(x, y) ==
  LET n == Length(x)
      sx == SumOver(LAMBDA k : x[k], 1, n)
      sy == SumOver(LAMBDA k : y[k], 1, n)
      sxx == SumOver(LAMBDA k : x[k] * x[k], 1, n)
      syy == SumOver(LAMBDA k : y[k] * y[k], 1, n)
      sxy == SumOver(LAMBDA k : x[k] * y[k], 1, n)
      SX == BigSub(Times(n, sxx), Times(sx, sx))
      SY == BigSub(Times(n, syy), Times(sy, sy))
      N == BigAbsDiff(Times(n, sxy), Times(sx, sy))
  IN IF Length(x) # Length(y) \/ n = 0 THEN RatOf(0, 1)
     ELSE IF SX = <<>> /\ SY = <<>>
          THEN IF MeanIsExact(x[1], n) \/ MeanIsExact(y[1], n)
               THEN RatOf(0, 1)
               ELSE RatOf(1, 1)
     ELSE IF SX = <<>> \/ SY = <<>> THEN RatOf(0, 1)
     ELSE [num |-> BigMul(N, N), den |-> BigMul(SX, SY)]

\* corr > p / q and corr < p / q for a correlation given by its square
CorrAbove(corr2, p, q) == RatLess(RatOf(p * p, q * q), corr2)

CorrBelow(corr2, p, q) == RatLess(corr2, RatOf(p * p, q * q))

\* checkPeriodicity: 0.9 when some period matches more than 80% of its pairs
checkPeriodicity(values) ==
  LET n == Length(values)
      matches(period) ==
        Cardinality({i \in period..(n - 1) :
                       20 * Abs(At(values, i) - At(values, i - period)) < LumaUnit})
  IN IF n < 4 THEN 0
     ELSE IF \E period \in 1..(n \div 2) : 5 * matches(period) > 4 * (n - period)
          THEN 9 * (Scale \div 10)
          ELSE 0

\* countEdges without the column test of line 1087 (the variant C17's formula
\* is tried against)
countEdgesEveryColumn(region, size) ==
  Cardinality({i \in 1..(Length(region) - 2) :
                 10 * Abs(At(region, i) - At(region, i - 1)) > LumaUnit})

\* countEdges: adjacent differences above 0.1, outside the first and last column
countEdges(region, size) ==
  Cardinality({i \in 1..(Length(region) - 2) :
                 /\ i % size > 0
                 /\ i % size < size - 1
                 /\ 10 * Abs(At(region, i) - At(region, i - 1)) > LumaUnit})

\* the luma array of a pixel buffer (lines 833-841, 882-889, 933-940)
LumaOf(pixels) ==
  ArrayFrom(LAMBDA i : 299 * pixels[4 * i + 1] + 587 * pixels[4 * i + 2]
                         + 114 * pixels[4 * i + 3],
            0, Length(pixels) \div 4 - 1)

(***************************************************************************)
(* The four analyzers.                                                     *)
(***************************************************************************)
blockSize == 8

regionSize == 64

\* the block array of the 8x8 block at (bx, by)
BlockAt(luma, width, bx, by) ==
  ArrayFrom(LAMBDA k : At(luma, (by + k \div blockSize) * width + (bx + (k % blockSize))),
            0, blockSize * blockSize - 1)

\* the rule of line 860 with `and` for `or` (the variant C15's formula is
\* tried against)
BlockIsAnomalousWhenBoth(block) ==
  /\ RatLess(calculateVariance(block), RatOf(1, 100))
  /\ checkPeriodicity(block) > 7 * (Scale \div 10)

\* line 860
BlockIsAnomalous(block) ==
  \/ RatLess(calculateVariance(block), RatOf(1, 100))
  \/ checkPeriodicity(block) > 7 * (Scale \div 10)

\* the blocks the loops of lines 847-848 visit
ScannedBlocks(width, height) ==
  Steps(0, width - blockSize, blockSize) \X Steps(0, height - blockSize, blockSize)

\* analyzeFrequencyDomain returning min(1, total), without the division of
\* line 867 (the variant C14's formula is tried against)
analyzeFrequencyDomainUndivided(pixels, width, height) ==
  LET flagged(luma) == Cardinality({b \in ScannedBlocks(width, height) :
                                      BlockIsAnomalous(BlockAt(luma, width, b[1], b[2]))})
  IN Min(Scale, flagged(LumaOf(pixels)) * (Scale \div 10))

analyzeFrequencyDomain(pixels, width, height) ==
  LET flagged(luma) == Cardinality({b \in ScannedBlocks(width, height) :
                                      BlockIsAnomalous(BlockAt(luma, width, b[1], b[2]))})
      frequencyScore == flagged(LumaOf(pixels)) * (Scale \div 10)
  IN Min(Scale, frequencyScore \div 10)

\* the grid points with the first row and the first column of blocks
\* included (the variant C16's formula is tried against)
BoundaryPointsFromZero(width, height) ==
  Steps(0, width, blockSize) \X Steps(0, height, blockSize)

\* the grid points the loops of lines 895-896 visit
BoundaryPoints(width, height) ==
  Steps(blockSize, width, blockSize) \X Steps(blockSize, height, blockSize)

\* lines 898-912
BoundaryIsArtifact(gray, width, bx, by) ==
  LET boundary == ArrayFrom(LAMBDA i : At(gray, by * width + (bx + i)), 0, 3)
      inside == ArrayFrom(LAMBDA i : At(gray, (by + 2) * width + (bx + i)), 0, 3)
      boundaryVar == calculateVariance(boundary)
      insideVar == calculateVariance(inside)
  IN RatLess(RatOf(5, 100), RatAbsDiff(boundaryVar, insideVar))

\* detectCompressionArtifacts returning its running total as it stands, without
\* the cap of line 918 (the variant C3's range formula is tried against)
detectCompressionArtifactsUncapped(pixels, width, height) ==
  LET flagged(gray) == Cardinality({g \in BoundaryPoints(width, height) :
                                      BoundaryIsArtifact(gray, width, g[1], g[2])})
  IN flagged(LumaOf(pixels)) * (Scale \div 20)

detectCompressionArtifacts(pixels, width, height) ==
  LET flagged(gray) == Cardinality({g \in BoundaryPoints(width, height) :
                                      BoundaryIsArtifact(gray, width, g[1], g[2])})
      artifactScore == flagged(LumaOf(pixels)) * (Scale \div 20)
  IN Min(Scale, artifactScore)

\* the region array of the 64x64 region at (rx, ry)
RegionAt(gray, width, rx, ry) ==
  ArrayFrom(LAMBDA k : At(gray, (ry + k \div regionSize) * width + (rx + (k % regionSize))),
            0, regionSize * regionSize - 1)

\* lines 950-965: the variance and the edge count of a region
RegionStats(region) ==
  [variance |-> calculateVariance(region), edgeCount |-> countEdges(region, regionSize)]

\* the texture total without the increment of lines 969-972 (the variant C5's
\* formula is tried against)
TextureScoreWithoutUniformity(stats) ==
  Cardinality({j \in DOMAIN stats :
                 /\ RatLess(stats[j].variance, RatOf(1, 100))
                 /\ 2 * stats[j].edgeCount < regionSize}) * (Scale \div 10)

\* lines 947-966 and 969-972: 0.1 per smooth region, 0.2 when the regions'
\* variances are too uniform
TextureScore(stats) ==
  LET smooth == Cardinality({j \in DOMAIN stats :
                               /\ RatLess(stats[j].variance, RatOf(1, 100))
                               /\ 2 * stats[j].edgeCount < regionSize})
      regions == ArrayFrom(LAMBDA j : stats[j].variance, 1, Length(stats))
      regionVariance == calculateVarianceOfVariances(regions)
  IN smooth * (Scale \div 10)
       + (IF RatLess(regionVariance, RatOf(2, 100)) THEN 2 * (Scale \div 10) ELSE 0)

\* the regions the loops of lines 947-948 visit
ScannedRegions(width, height) ==
  Steps(0, width - regionSize, regionSize) \X Steps(0, height - regionSize, regionSize)

analyzeTextureConsistency(pixels, width, height) ==
  LET cols == Cardinality(Steps(0, width - regionSize, regionSize))
      rows == Cardinality(Steps(0, height - regionSize, regionSize))
      stats(gray) ==
        ArrayFrom(LAMBDA j : RegionStats(RegionAt(gray, width, regionSize * (j % cols),
                                                  regionSize * (j \div cols))),
                  0, rows * cols - 1)
  IN Min(Scale, TextureScore(stats(LumaOf(pixels))))

\* lines 1001-1011: 0.3 when a channel pair is too correlated, 0.2 when one is
\* too independent
ColorScore(rgCorr, rbCorr, gbCorr) ==
  LET tooCorrelated == CorrAbove(rgCorr, 95, 100) \/ CorrAbove(rbCorr, 95, 100) \/ CorrAbove(gbCorr, 95, 100)
      tooIndependent == CorrBelow(rgCorr, 3, 10) \/ CorrBelow(rbCorr, 3, 10) \/ CorrBelow(gbCorr, 3, 10)
  IN (IF tooCorrelated THEN 3 * (Scale \div 10) ELSE 0)
       + (IF tooIndependent THEN 2 * (Scale \div 10) ELSE 0)

\* lines 998-1000
Correlations(rValues, gValues, bValues) ==
  ColorScore(calculateCorrelation(rValues, gValues),
             calculateCorrelation(rValues, bValues),
             calculateCorrelation(gValues, bValues))

\* detectColorAnomalies sampling every pixel, without the limit of line 987
\* (the variant C18's formula is tried against)
detectColorAnomaliesEveryPixel(pixels) ==
  LET samples == Length(pixels) \div 4
      rValues == ArrayFrom(LAMBDA i : pixels[4 * i + 1], 0, samples - 1)
      gValues == ArrayFrom(LAMBDA i : pixels[4 * i + 2], 0, samples - 1)
      bValues == ArrayFrom(LAMBDA i : pixels[4 * i + 3], 0, samples - 1)
  IN Min(Scale, Correlations(rValues, gValues, bValues))

detectColorAnomalies(pixels) ==
  LET samples == Min(Length(pixels) \div 4, 1000)
      rValues == ArrayFrom(LAMBDA i : pixels[4 * i + 1], 0, samples - 1)
      gValues == ArrayFrom(LAMBDA i : pixels[4 * i + 2], 0, samples - 1)
      bValues == ArrayFrom(LAMBDA i : pixels[4 * i + 3], 0, samples - 1)
  IN Min(Scale, Correlations(rValues, gValues, bValues))

(***************************************************************************)
(* Image sources.  An image source is an HTMLImageElement (isImage) or     *)
(* another canvas image source, with its intrinsic size and its content.   *)
(* The content is a background colour on which the first `noisy` 8x8       *)
(* tiles (row by row) are filled with per-pixel noise and the first        *)
(* `marks` interior tile corners carry a step in their top row (a sharp    *)
(* block boundary); `paint` says which channels noise and marks modulate.  *)
(* The paint "sine" is the smooth sinusoidal field of the detector's test. *)
(* Three more paints give the patterns single rules of the analyzers turn  *)
(* on: "stripes" is black and white columns one pixel wide; "column" is    *)
(* the background with white pixels in column `marks`, rows 0..noisy-1;    *)
(* "tail" is the background down to row `marks` and noise from there on.   *)
(***************************************************************************)
MaxTiles == 2

MaxNoisy == 20

MaxMarks == 24

MaxCalls == 2

Black == <<0, 0, 0>>

Grey == <<128, 128, 128>>

White == <<255, 255, 255>>

\* a pseudo-random level 0..255 per pixel and stream (the `real` test image
\* draws Math.random() per pixel)
Noise(x, y, stream) ==
  (((x * x * 7 + y * y * 13 + x * y * 5 + x * 3 + y * 11 + stream * 101) % 256) * 37
     + ((x * y * y + stream) % 256) * 59) % 256

\* round(sin(x / 30) * 50 * 10^5) for x = 0..255
SineTable ==
  <<
     0, 166636, 333086, 499167, 664693, 829481, 993347, 1156109,
     1317587, 1477601, 1635973, 1792528, 1947092, 2099492, 2249559, 2397128,
     2542033, 2684114, 2823212, 2959175, 3091849, 3221088, 3346749, 3468692,
     3586780, 3700884, 3810876, 3916635, 4018041, 4114984, 4207355, 4295051,
     4377976, 4456037, 4529147, 4597225, 4660195, 4717988, 4770540, 4817791,
     4859690, 4896189, 4927249, 4952834, 4972917, 4987475, 4996492, 4999957,
     4997868, 4990226, 4977040, 4958324, 4934100, 4904393, 4869238, 4828673,
     4782744, 4731500, 4675000, 4613307, 4546487, 4474617, 4397775, 4316047,
     4229524, 4138302, 4042482, 3942171, 3837480, 3728526, 3615429, 3498316,
     3377316, 3252564, 3124198, 2992361, 2857199, 2718863, 2577507, 2433287,
     2286363, 2136899, 1985062, 1831018, 1674941, 1517002, 1357379, 1196247,
     1033786, 870176, 705600, 540240, 374280, 207903, 41296, -125357,
     -291871, -458060, -623741, -788728, -952840, -1115893, -1277706, -1438099,
     -1596895, -1753916, -1908989, -2061941, -2212602, -2360805, -2506385, -2649181,
     -2789033, -2925786, -3059289, -3189394, -3315954, -3438831, -3557887, -3672990,
     -3784012, -3890831, -3993327, -4091386, -4184899, -4273763, -4357879, -4437153,
     -4511498, -4580830, -4645073, -4704155, -4758010, -4806580, -4849809, -4887651,
     -4920062, -4947006, -4968455, -4984384, -4994775, -4999616, -4998903, -4992637,
     -4980823, -4963476, -4940614, -4912263, -4878455, -4839226, -4794621, -4744690,
     -4689487, -4629073, -4563517, -4492891, -4417273, -4336748, -4251404, -4161337,
     -4066647, -3967439, -3863822, -3755914, -3643832, -3527702, -3407652, -3283817,
     -3156333, -3025343, -2890991, -2753428, -2612805, -2469280, -2323011, -2174161,
     -2022896, -1869383, -1713794, -1556300, -1397077, -1236303, -1074154, -910813,
     -746459, -581276, -415447, -249157, -82589, 84070, 250635, 416922,
     582746, 747922, 912268, 1075600, 1237737, 1398499, 1557707, 1715184,
     1870756, 2024250, 2175494, 2324322, 2470567, 2614067, 2754663, 2892199,
     3026521, 3157481, 3284933, 3408735, 3528750, 3644845, 3756890, 3864762,
     3968339, 4067508, 4162158, 4252183, 4337484, 4417967, 4493540, 4564122,
     4629633, 4690000, 4745156, 4795041, 4839598, 4878779, 4912539, 4940841,
     4963654, 4980952, 4992717, 4998934, 4999598, 4994707, 4984267, 4968289,
     4946791, 4919798, 4887338, 4849449, 4806172, 4757555, 4703653, 4644525,
     4580236, 4510859, 4436471, 4357153, 4272995, 4184089, 4090534, 3992436
  >>

\* a Uint8ClampedArray element set to num / den
ToUint8Clamped(num, den) == Max(0, Min(255, (2 * num + den) \div (2 * den)))

\* the `ai` test image: value = sin(x/30)*50 + sin(y/30)*50 + 128,
\* R = value, G = value * 0.98, B = value * 0.96
SinePixel(x, y) ==
  LET unit == 100000
      value == SineTable[x + 1] + SineTable[y + 1] + 128 * unit
  IN <<ToUint8Clamped(value, unit),
       ToUint8Clamped(49 * (value \div 50) + (49 * (value % 50)) \div 50, unit),
       ToUint8Clamped(24 * (value \div 25) + (24 * (value % 25)) \div 25, unit)>>

Tinted(paint, bg, l0, l1, l2) ==
  CASE paint = "grey" -> <<l0, l0, l0>>
    [] paint = "rg" -> <<l0, l0, bg[3]>>
    [] OTHER -> <<l0, (l0 + l1) \div 2, (l0 + l2) \div 2>>

\* the colour of the source image at (x, y)
SourcePixel(img, x, y) ==
  LET tx == x \div blockSize
      ty == y \div blockSize
      tcols == (img.naturalWidth + blockSize - 1) \div blockSize
      tile == ty * tcols + tx
      corner == (ty - 1) * (tcols - 1) + (tx - 1)
      marked == tx >= 1 /\ ty >= 1 /\ corner < img.marks /\ x % blockSize < 4
  IN IF img.paint = "sine" THEN SinePixel(x, y)
     ELSE IF img.paint = "stripes" THEN (IF x % 2 = 0 THEN Black ELSE White)
     ELSE IF img.paint = "column"
          THEN (IF x = img.marks /\ y < img.noisy THEN White ELSE img.bg)
     ELSE IF img.paint = "tail"
          THEN (IF y >= img.marks
                THEN Tinted("mixed", img.bg, Noise(x, y, 0), Noise(x, y, 1), Noise(x, y, 2))
                ELSE img.bg)
     ELSE IF marked /\ y % blockSize = 0
          THEN IF x % blockSize < 2
               THEN Tinted(img.paint, img.bg, 0, 0, 0)
               ELSE Tinted(img.paint, img.bg, 255, 255, 255)
     ELSE IF marked /\ y % blockSize = 2 THEN img.bg
     ELSE IF tile < img.noisy
          THEN Tinted(img.paint, img.bg, Noise(x, y, 0), Noise(x, y, 1), Noise(x, y, 2))
     ELSE img.bg

Source(w, h, paint, bg, noisy, marks) ==
  [isImage |-> TRUE, naturalWidth |-> w, naturalHeight |-> h,
   paint |-> paint, bg |-> bg, noisy |-> noisy, marks |-> marks]

SmallSides == {1, 4, 8} \cup {blockSize * k + 1 : k \in 1..MaxTiles}

UniformSources ==
  {Source(s, s, "grey", c, 0, 0) : s \in SmallSides, c \in {Black, Grey, White}}
    \cup {Source(256, 256, "grey", Grey, 0, 0)}

PaintedSizes == {<<48, 48>>, <<56, 56>>, <<72, 72>>, <<32, 256>>}

\* every tile of a painted size is noisy from this count on
AllTiles == 8 * 32

PaintedSources ==
  {Source(d[1], d[2], p, Grey, k, m) :
     d \in PaintedSizes, p \in {"grey", "rg", "mixed"},
     k \in {0, MaxNoisy, AllTiles}, m \in {0, MaxMarks}}

Sources ==
  UniformSources \cup PaintedSources
    \cup {Source(256, 256, "sine", Grey, 0, 0)}

\* a canvas image source that is not an HTMLImageElement (a canvas, a video
\* frame, an ImageBitmap) with a w x h picture
OtherSource(w, h, paint, bg, noisy, marks) ==
  [Source(w, h, paint, bg, noisy, marks) EXCEPT !.isImage = FALSE]

\* an HTMLImageElement that has not loaded: naturalWidth = naturalHeight = 0,
\* and drawImage draws nothing
NotLoaded == Source(0, 0, "grey", Black, 0, 0)

MaxSide == 6

\* the sources the sampler is run on
SamplerSources ==
  {Source(w, h, p, c, 0, 0) :
     w \in 1..MaxSide, h \in 1..MaxSide, p \in {"grey", "stripes"}, c \in {Black, Grey}}
    \cup {NotLoaded,
          OtherSource(4, 4, "stripes", Grey, 0, 0),
          OtherSource(64, 64, "grey", Grey, 0, 0)}

\* the images whose pixel buffers the analyzers are run on one by one
AnalyzerSources ==
  {Source(s, s, "grey", Grey, 0, 0) : s \in {8, 16, 64, 81}}
    \cup {Source(73, 89, "grey", Grey, 0, 0)}
    \cup {Source(d[1], d[2], p, Grey, k[1], k[2]) :
            d \in {<<17, 17>>, <<56, 56>>, <<72, 72>>},
            p \in {"grey", "rg", "mixed"},
            k \in {<<0, MaxMarks>>, <<MaxNoisy, 0>>, <<AllTiles, MaxMarks>>}}
    \cup {Source(17, 17, "stripes", Grey, 0, 0),
          Source(24, 24, "stripes", Grey, 0, 0),
          Source(17, 17, "column", Black, 10, 0),
          Source(72, 72, "column", Grey, 32, 63),
          Source(72, 72, "column", Grey, 32, 0),
          Source(72, 72, "column", Grey, 16, 10),
          Source(72, 72, "column", Grey, 15, 10),
          Source(136, 72, "column", Grey, 16, 10),
          Source(48, 48, "tail", Grey, 0, 24),
          Source(48, 48, "tail", Black, 0, 24)}

(***************************************************************************)
(* analyzeImageForDeepfake as a state machine.                             *)
(***************************************************************************)
VARIABLES
  pc,                    \* where the current call stands
  imageElement,          \* the image source passed to the call
  context2d,             \* whether canvas.getContext('2d') yields a context
  width, height,         \* canvas.width, canvas.height
  frequencyAnomaly,      \* the four analyzer scores of the call (its locals)
  compressionArtifacts,
  textureInconsistency,
  colorAnomalies,
  result,                \* what the call's promise resolved with
  calls,                 \* the calls made so far on imageElement
  previous,              \* scores and result of the last call that resolved
  pixels                 \* imageData.data where the analyzers run as steps of
                         \* their own (SpecAnalyzers); otherwise a local of
                         \* the call, ImageData(imageElement, width, height)

(***************************************************************************)
(* The programs around the detector: the facial-recognition edge function  *)
(* (supabase/functions), the useDeepfakeDetector hook and the              *)
(* ProfileGuardScanner page.  Each has its own specification below; the    *)
(* others stand still in it.                                               *)
(***************************************************************************)
VARIABLES
  req,                   \* the request the edge function is serving
  secrets,               \* which function secrets Deno.env.get finds
  step,                  \* where the serve handler stands
  response,              \* the Response the handler returned
  retries, delay,        \* retryFetch's parameters in the current attempt
  fetched,               \* what each fetch of retryFetch gave, in order
  waited,                \* the delays retryFetch has waited, in order
  fetchSettled           \* what retryFetch returned or threw

VARIABLES
  state,                 \* useDeepfakeDetector's state
  microtasks,            \* the analyze calls waiting to continue, in order
  settled                \* what each analyze call returned or threw

VARIABLES
  scanner,               \* ProfileGuardScanner's state
  timer                  \* the handleScan calls waiting out their 1200 ms

detectorVars ==
  <<pc, imageElement, context2d, width, height, frequencyAnomaly,
    compressionArtifacts, textureInconsistency, colorAnomalies, result, calls,
    previous, pixels>>

edgeVars ==
  <<req, secrets, step, response, retries, delay, fetched, waited,
    fetchSettled>>

hookVars == <<state, microtasks, settled>>

pageVars == <<scanner, timer>>

\* A value that may be null is <<>> when it is null and <<v>> when it is v
Null == <<>>

NonNull(v) == <<v>>

\* part_001 lines 29-31
MAX_RETRIES == 2

RETRY_DELAY == 1000

\* no request has arrived at the edge function
NoRequest == [handler |-> "none", method |-> "none", body |-> "none"]

NoSecrets ==
  [supabaseServiceKey |-> FALSE, openAIApiKey |-> FALSE,
   sightengineUser |-> FALSE, sightengineSecret |-> FALSE,
   HUGGINGFACE_API_KEY |-> FALSE]

EdgeIdle ==
  /\ req = NoRequest
  /\ secrets = NoSecrets
  /\ step = "idle"
  /\ response = Null
  /\ retries = MAX_RETRIES
  /\ delay = RETRY_DELAY
  /\ fetched = <<>>
  /\ waited = <<>>
  /\ fetchSettled = Null

\* useDeepfakeDetector.ts lines 11-15
InitialState == [isAnalyzing |-> FALSE, result |-> Null, error |-> Null]

HookIdle ==
  /\ state = InitialState
  /\ microtasks = <<>>
  /\ settled = <<>>

\* ProfileGuardScanner.tsx lines 201-215, the state of the scan
InitialScanner ==
  [input |-> "", scanning |-> FALSE, followers |-> 0, posts |-> 0, bio |-> "",
   profile |-> Null, result |-> Null, isPrivate |-> FALSE,
   showQuestionnaire |-> FALSE, answers |-> <<>>, questionIdx |-> 0]

PageIdle ==
  /\ scanner = InitialScanner
  /\ timer = <<>>

vars == <<detectorVars, edgeVars, hookVars, pageVars>>

NoResult ==
  [isFake |-> FALSE, confidence |-> Undefined, riskLevel |-> "none",
   details |-> [frequencyAnomaly |-> Undefined, compressionArtifacts |-> Undefined,
                textureInconsistency |-> Undefined, colorAnomalies |-> Undefined]]

NoPrevious ==
  [scores |-> <<Undefined, Undefined, Undefined, Undefined>>, result |-> NoResult]

\* ctx.getImageData(0, 0, width, height).data after the draw of lines 738-747:
\* an image element is drawn at its intrinsic size at (0, 0), any other source
\* is resampled onto the whole canvas; what is not drawn on stays transparent
ImageData(img, w, h) ==
  Concat(LAMBDA p :
           LET x == p % w
               y == p \div w
           IN IF img.isImage
              THEN IF x < img.naturalWidth /\ y < img.naturalHeight
                   THEN SourcePixel(img, x, y) \o <<255>>
                   ELSE <<0, 0, 0, 0>>
              ELSE SourcePixel(img, (x * img.naturalWidth) \div w,
                                    (y * img.naturalHeight) \div h) \o <<255>>,
         0, w * h - 1)

\* Math.ceil of a fixed-point number (the variant C12's formula is tried against)
MathCeil(v) == (v + Scale - 1) \div Scale

\* Math.round of a fixed-point number
MathRound(v) == (v + Scale \div 2) \div Scale

\* the weighted sum with the weights of frequency and compression exchanged
\* (the variant C7's formula is tried against)
combinedScoreExchanged(frequency, compression, texture, color) ==
  (frequency * 2500 + compression * 3500 + texture * 2500 + color * 1500) \div Scale

\* lines 771-782: weights 0.35, 0.25, 0.25, 0.15
combinedScore(frequency, compression, texture, color) ==
  (frequency * 3500 + compression * 2500 + texture * 2500 + color * 1500) \div Scale

\* lines 785-813
Combine(frequency, compression, texture, color) ==
  LET confidence ==
        Min(100 * Scale, Max(0, combinedScore(frequency, compression, texture, color) * 100))
      riskLevel ==
        IF confidence > 70 * Scale THEN "high"
        ELSE IF confidence > 40 * Scale THEN "medium"
        ELSE "low"
  IN [isFake |-> confidence > 50 * Scale,
      confidence |-> MathRound(confidence),
      riskLevel |-> riskLevel,
      details |-> [frequencyAnomaly |-> MathRound(frequency * 100),
                   compressionArtifacts |-> MathRound(compression * 100),
                   textureInconsistency |-> MathRound(texture * 100),
                   colorAnomalies |-> MathRound(color * 100)]]

Init ==
  /\ pc = "called"
  /\ imageElement \in Sources
  /\ context2d \in BOOLEAN
  /\ width = 300
  /\ height = 150
  /\ frequencyAnomaly = Undefined
  /\ compressionArtifacts = Undefined
  /\ textureInconsistency = Undefined
  /\ colorAnomalies = Undefined
  /\ result = NoResult
  /\ calls = 1
  /\ previous = NoPrevious
  /\ pixels = <<>>
  /\ EdgeIdle
  /\ HookIdle
  /\ PageIdle

\* the executor asking for the context a second time instead of throwing
\* (the variant C11's formula is tried against)
RetryContext ==
  /\ pc = "called"
  /\ ~context2d
  /\ context2d' = TRUE
  /\ UNCHANGED <<pc, imageElement, width, height, frequencyAnomaly,
                 compressionArtifacts, textureInconsistency, colorAnomalies,
                 result, calls, previous, pixels>>
  /\ UNCHANGED <<edgeVars, hookVars, pageVars>>

\* lines 733-735: no 2D context, the promise rejects
Reject ==
  /\ pc = "called"
  /\ ~context2d
  /\ pc' = "rejected"
  /\ UNCHANGED <<imageElement, context2d, width, height, frequencyAnomaly,
                 compressionArtifacts, textureInconsistency, colorAnomalies,
                 result, calls, previous, pixels>>
  /\ UNCHANGED <<edgeVars, hookVars, pageVars>>

\* lines 738-747: the canvas size the call sets
CanvasWidth(img) ==
  IF img.isImage THEN (IF img.naturalWidth = 0 THEN 256 ELSE img.naturalWidth) ELSE 512

CanvasHeight(img) ==
  IF img.isImage THEN (IF img.naturalHeight = 0 THEN 256 ELSE img.naturalHeight) ELSE 512

\* the analysis with the frequency total carried over from the call before
\* instead of starting at 0 (the variant C10's formula is tried against)
AnalyzedOnStaleTotal(data, w, h) ==
  /\ frequencyAnomaly' = Min(Scale, Max(0, previous.scores[1]) + analyzeFrequencyDomain(data, w, h))
  /\ compressionArtifacts' = detectCompressionArtifacts(data, w, h)
  /\ textureInconsistency' = analyzeTextureConsistency(data, w, h)
  /\ colorAnomalies' = detectColorAnomalies(data)
  /\ result' = Combine(frequencyAnomaly', compressionArtifacts',
                       textureInconsistency', colorAnomalies')

\* lines 749-815: the four analyzers on the canvas pixels, then the result
Analyzed(data, w, h) ==
  /\ frequencyAnomaly' = analyzeFrequencyDomain(data, w, h)
  /\ compressionArtifacts' = detectCompressionArtifacts(data, w, h)
  /\ textureInconsistency' = analyzeTextureConsistency(data, w, h)
  /\ colorAnomalies' = detectColorAnomalies(data)
  /\ result' = Combine(frequencyAnomaly', compressionArtifacts',
                       textureInconsistency', colorAnomalies')

\* lines 733-815 with a 2D context: size the canvas, draw the source, analyze
\* the pixels and resolve the promise (one synchronous run of the executor)
Analyze ==
  /\ pc = "called"
  /\ context2d
  /\ width' = CanvasWidth(imageElement)
  /\ height' = CanvasHeight(imageElement)
  /\ Analyzed(ImageData(imageElement, CanvasWidth(imageElement), CanvasHeight(imageElement)),
              CanvasWidth(imageElement), CanvasHeight(imageElement))
  /\ pc' = "resolved"
  /\ UNCHANGED <<imageElement, context2d, calls, previous, pixels>>
  /\ UNCHANGED <<edgeVars, hookVars, pageVars>>

\* the caller analyzes the same source again: a new call with fresh locals
\* and a fresh canvas
Call ==
  /\ pc \in {"resolved", "rejected"}
  /\ calls < MaxCalls
  /\ calls' = calls + 1
  /\ previous' = (IF pc = "resolved"
                  THEN [scores |-> <<frequencyAnomaly, compressionArtifacts,
                                     textureInconsistency, colorAnomalies>>,
                        result |-> result]
                  ELSE previous)
  /\ width' = 300
  /\ height' = 150
  /\ frequencyAnomaly' = Undefined
  /\ compressionArtifacts' = Undefined
  /\ textureInconsistency' = Undefined
  /\ colorAnomalies' = Undefined
  /\ result' = NoResult
  /\ pc' = "called"
  /\ UNCHANGED <<imageElement, context2d, pixels>>
  /\ UNCHANGED <<edgeVars, hookVars, pageVars>>

Next ==
  \/ Reject
  \/ Analyze
  \/ Call

Spec == Init /\ [][Next]_vars

(***************************************************************************)
(* The pixel sampler alone: lines 733-750 as one step.  The buffer it      *)
(* reads back is ImageData(imageElement, width, height).                   *)
(***************************************************************************)
InitSampler ==
  /\ pc = "called"
  /\ imageElement \in SamplerSources
  /\ context2d = TRUE
  /\ width = 300
  /\ height = 150
  /\ frequencyAnomaly = Undefined
  /\ compressionArtifacts = Undefined
  /\ textureInconsistency = Undefined
  /\ colorAnomalies = Undefined
  /\ result = NoResult
  /\ calls = 1
  /\ previous = NoPrevious
  /\ pixels = <<>>
  /\ EdgeIdle
  /\ HookIdle
  /\ PageIdle

\* lines 738-750: size the canvas, draw the source, read the pixels back
Sample ==
  /\ pc = "called"
  /\ context2d
  /\ width' = CanvasWidth(imageElement)
  /\ height' = CanvasHeight(imageElement)
  /\ pc' = "sampled"
  /\ UNCHANGED <<imageElement, context2d, frequencyAnomaly, compressionArtifacts,
                 textureInconsistency, colorAnomalies, result, calls, previous,
                 pixels>>
  /\ UNCHANGED <<edgeVars, hookVars, pageVars>>

NextSampler == Sample

SpecSampler == InitSampler /\ [][NextSampler]_vars

(***************************************************************************)
(* The four analyzers as tasks of their own on one sampled buffer, run in  *)
(* any order, and the combiner once all four have returned.  Each analyzer *)
(* only reads the buffer (lines 827-1014 assign to no element of pixels).  *)
(***************************************************************************)
InitAnalyzers ==
  /\ pc = "sampled"
  /\ imageElement \in AnalyzerSources
  /\ context2d = TRUE
  /\ width = CanvasWidth(imageElement)
  /\ height = CanvasHeight(imageElement)
  /\ pixels = ImageData(imageElement, width, height)
  /\ frequencyAnomaly = Undefined
  /\ compressionArtifacts = Undefined
  /\ textureInconsistency = Undefined
  /\ colorAnomalies = Undefined
  /\ result = NoResult
  /\ calls = 1
  /\ previous = NoPrevious
  /\ EdgeIdle
  /\ HookIdle
  /\ PageIdle

\* the buffer with every pixel replaced by its grey value
GreyedInPlace(data) ==
  Concat(LAMBDA p :
           LET grey == (299 * data[4 * p + 1] + 587 * data[4 * p + 2]
                          + 114 * data[4 * p + 3]) \div 1000
           IN <<grey, grey, grey, data[4 * p + 4]>>,
         0, Length(data) \div 4 - 1)

\* the frequency analyzer writing its grey values into the buffer it was
\* given (the variant C20's formula is tried against)
FrequencyTaskInPlace ==
  /\ pc = "sampled"
  /\ frequencyAnomaly = Undefined
  /\ frequencyAnomaly' = analyzeFrequencyDomain(pixels, width, height)
  /\ pixels' = GreyedInPlace(pixels)
  /\ UNCHANGED <<pc, imageElement, context2d, width, height, compressionArtifacts,
                 textureInconsistency, colorAnomalies, result, calls, previous>>
  /\ UNCHANGED <<edgeVars, hookVars, pageVars>>

\* line 755
FrequencyTask ==
  /\ pc = "sampled"
  /\ frequencyAnomaly = Undefined
  /\ frequencyAnomaly' = analyzeFrequencyDomain(pixels, width, height)
  /\ UNCHANGED <<pc, imageElement, context2d, width, height, compressionArtifacts,
                 textureInconsistency, colorAnomalies, result, calls, previous,
                 pixels>>
  /\ UNCHANGED <<edgeVars, hookVars, pageVars>>

\* line 759
CompressionTask ==
  /\ pc = "sampled"
  /\ compressionArtifacts = Undefined
  /\ compressionArtifacts' = detectCompressionArtifacts(pixels, width, height)
  /\ UNCHANGED <<pc, imageElement, context2d, width, height, frequencyAnomaly,
                 textureInconsistency, colorAnomalies, result, calls, previous,
                 pixels>>
  /\ UNCHANGED <<edgeVars, hookVars, pageVars>>

\* line 763
TextureTask ==
  /\ pc = "sampled"
  /\ textureInconsistency = Undefined
  /\ textureInconsistency' = analyzeTextureConsistency(pixels, width, height)
  /\ UNCHANGED <<pc, imageElement, context2d, width, height, frequencyAnomaly,
                 compressionArtifacts, colorAnomalies, result, calls, previous,
                 pixels>>
  /\ UNCHANGED <<edgeVars, hookVars, pageVars>>

\* line 767
ColorTask ==
  /\ pc = "sampled"
  /\ colorAnomalies = Undefined
  /\ colorAnomalies' = detectColorAnomalies(pixels)
  /\ UNCHANGED <<pc, imageElement, context2d, width, height, frequencyAnomaly,
                 compressionArtifacts, textureInconsistency, result, calls,
                 previous, pixels>>
  /\ UNCHANGED <<edgeVars, hookVars, pageVars>>

\* lines 771-815 once the four scores are there
Join ==
  /\ pc = "sampled"
  /\ frequencyAnomaly # Undefined
  /\ compressionArtifacts # Undefined
  /\ textureInconsistency # Undefined
  /\ colorAnomalies # Undefined
  /\ result' = Combine(frequencyAnomaly, compressionArtifacts,
                       textureInconsistency, colorAnomalies)
  /\ pc' = "joined"
  /\ UNCHANGED <<imageElement, context2d, width, height, frequencyAnomaly,
                 compressionArtifacts, textureInconsistency, colorAnomalies,
                 calls, previous, pixels>>
  /\ UNCHANGED <<edgeVars, hookVars, pageVars>>

NextAnalyzers ==
  \/ FrequencyTask
  \/ CompressionTask
  \/ TextureTask
  \/ ColorTask
  \/ Join

SpecAnalyzers == InitAnalyzers /\ [][NextAnalyzers]_vars

(***************************************************************************)
(* The facial-recognition edge function.  Two versions of its serve        *)
(* handler are in the repository: part_001 (Sightengine, then OpenAI       *)
(* through retryFetch) and supabase/functions/facial-recognition/index.ts  *)
(* (Hugging Face).  One request is served per behaviour.                   *)
(***************************************************************************)

\* no call of analyzeImageForDeepfake is under way
DetectorIdle ==
  /\ pc = "idle"
  /\ imageElement = NotLoaded
  /\ context2d = TRUE
  /\ width = 300
  /\ height = 150
  /\ frequencyAnomaly = Undefined
  /\ compressionArtifacts = Undefined
  /\ textureInconsistency = Undefined
  /\ colorAnomalies = Undefined
  /\ result = NoResult
  /\ calls = 1
  /\ previous = NoPrevious
  /\ pixels = <<>>

\* part_001 lines 22-27, index.ts lines 4-9
corsHeaders ==
  ("Access-Control-Allow-Origin" :> "*")
    @@ ("Access-Control-Allow-Headers"
          :> "authorization, x-client-info, apikey, content-type")
    @@ ("Access-Control-Allow-Methods" :> "POST, OPTIONS")
    @@ ("Access-Control-Max-Age" :> "3600")

\* the variant C21's formula is tried against: the content type alone
OnlyContentType == ("Content-Type" :> "application/json")

\* { ...corsHeaders, 'Content-Type': 'application/json' }
JsonHeaders == ("Content-Type" :> "application/json") @@ corsHeaders

\* new Response(body, { status, headers }); of the body only whether it has
\* an error field and whether it is the fallback analysis
Response(status, headers, error, isFallback) ==
  NonNull([status |-> status, headers |-> headers,
           body |-> NonNull([error |-> error, isFallback |-> isFallback])])

\* part_001 lines 78-81, index.ts lines 15-20: new Response(null, ...)
Preflight == NonNull([status |-> 200, headers |-> corsHeaders, body |-> Null])

\* an error body under the given status
ErrorResponse(status) == Response(status, JsonHeaders, TRUE, FALSE)

\* part_001 lines 366-372 and 552-558, index.ts lines 126-132: no status given,
\* which is 200
AnalysisResponse == Response(200, JsonHeaders, FALSE, FALSE)

\* part_001 lines 383-387, 454-458 and 564-568: getFallbackAnalysis(imageUrl)
FallbackResponse == Response(200, JsonHeaders, FALSE, TRUE)

\* part_001 lines 570-582: the outer catch answers 200 with the fallback
\* analysis and the error's message
CaughtResponse == Response(200, JsonHeaders, TRUE, TRUE)

Methods == {"OPTIONS", "GET", "POST"}

\* what req.json() finds: a body that is not JSON, the JSON value null, an
\* object without imageUrl, an object with one
Bodies == {"unparsable", "null", "empty", "image"}

Handlers == {"part_001", "index.ts"}

Requests ==
  {[handler |-> h, method |-> m, body |-> b] :
     h \in Handlers, m \in Methods, b \in Bodies}

\* part_001 lines 10-20 and index.ts line 37: the secrets each version reads
SecretsOf(handler) ==
  IF handler = "part_001"
  THEN [supabaseServiceKey : BOOLEAN, openAIApiKey : BOOLEAN,
        sightengineUser : BOOLEAN, sightengineSecret : BOOLEAN,
        HUGGINGFACE_API_KEY : {FALSE}]
  ELSE [supabaseServiceKey : {FALSE}, openAIApiKey : {FALSE},
        sightengineUser : {FALSE}, sightengineSecret : {FALSE},
        HUGGINGFACE_API_KEY : BOOLEAN]

InitEdge ==
  /\ req \in Requests
  /\ secrets \in SecretsOf(req.handler)
  /\ step = "received"
  /\ response = Null
  /\ retries = MAX_RETRIES
  /\ delay = RETRY_DELAY
  /\ fetched = <<>>
  /\ waited = <<>>
  /\ fetchSettled = Null
  /\ DetectorIdle
  /\ HookIdle
  /\ PageIdle

\* part_001 lines 76-388: the response given before OpenAI is called, Null
\* when the handler goes on to call it.  createClientThrows: the Supabase
\* client cannot be made (line 147); sightengineAnswers: the Sightengine call
\* gives a usable score (lines 258-288)
BeforeOpenAI(createClientThrows, sightengineAnswers) ==
  IF req.method = "OPTIONS" THEN Preflight
  ELSE IF req.method # "POST" THEN ErrorResponse(405)
  ELSE IF ~secrets.supabaseServiceKey THEN ErrorResponse(500)
  ELSE IF ~secrets.openAIApiKey
            /\ (~secrets.sightengineUser \/ ~secrets.sightengineSecret)
    THEN ErrorResponse(500)
  ELSE IF createClientThrows THEN CaughtResponse
  ELSE IF req.body \in {"unparsable", "null"} THEN ErrorResponse(400)
  ELSE IF req.body = "empty" THEN ErrorResponse(400)
  ELSE IF secrets.sightengineUser /\ secrets.sightengineSecret
            /\ sightengineAnswers
    THEN AnalysisResponse
  ELSE IF ~secrets.openAIApiKey THEN FallbackResponse
  ELSE Null

\* part_001 lines 70-394: the handler up to its response or to its call of
\* retryFetch with the default retries and delay
Serve ==
  /\ step = "received"
  /\ req.handler = "part_001"
  /\ \E createClientThrows \in BOOLEAN, sightengineAnswers \in BOOLEAN :
       LET early == BeforeOpenAI(createClientThrows, sightengineAnswers)
       IN /\ response' = early
          /\ step' = (IF early = Null THEN "fetching" ELSE "responded")
  /\ retries' = MAX_RETRIES
  /\ delay' = RETRY_DELAY
  /\ UNCHANGED <<req, secrets, fetched, waited, fetchSettled>>
  /\ UNCHANGED <<detectorVars, hookVars, pageVars>>

\* what one fetch gives: a response with its status, or a thrown error; each
\* carries the number of the attempt it came from
FetchOutcomes(attempt) ==
  {[threw |-> FALSE, status |-> s, attempt |-> attempt] : s \in {200, 429, 500}}
    \cup {[threw |-> TRUE, status |-> 0, attempt |-> attempt]}

\* the variant C28's formula is tried against: retries while none are owed
RetriesWhileNotNegative(outcome, left) ==
  left >= 0 /\ (outcome.threw \/ outcome.status = 429)

\* part_001 lines 38 and 46: whether retryFetch waits and calls itself again
Retries(outcome, left) ==
  left > 0 /\ (outcome.threw \/ outcome.status = 429)

\* part_001 lines 33-53: one call of retryFetch, from its fetch to its
\* return, its throw or its setTimeout
Attempt ==
  /\ step = "fetching"
  /\ \E outcome \in FetchOutcomes(Len(fetched) + 1) :
       /\ fetched' = Append(fetched, outcome)
       /\ IF Retries(outcome, retries)
          THEN /\ step' = "waiting"
               /\ fetchSettled' = Null
          ELSE /\ step' = "fetched"
               /\ fetchSettled' = NonNull(outcome)
  /\ UNCHANGED <<req, secrets, response, retries, delay, waited>>
  /\ UNCHANGED <<detectorVars, hookVars, pageVars>>

\* part_001 lines 40-41 and 48-49: the timer fires and retryFetch calls
\* itself with one retry less and twice the delay
Timeout ==
  /\ step = "waiting"
  /\ waited' = Append(waited, delay)
  /\ retries' = retries - 1
  /\ delay' = delay * 2
  /\ step' = "fetching"
  /\ UNCHANGED <<req, secrets, response, fetched, fetchSettled>>
  /\ UNCHANGED <<detectorVars, hookVars, pageVars>>

\* part_001 lines 447-569: the response once retryFetch has settled with
\* outcome.  mentionsQuota: the error text names quota or billing (line 452);
\* wellFormed: the completion parses and has a message (lines 464-470)
AfterOpenAI(outcome, mentionsQuota, wellFormed) ==
  IF outcome.threw THEN FallbackResponse
  ELSE IF outcome.status \notin 200..299
    THEN (IF mentionsQuota \/ outcome.status = 429
          THEN FallbackResponse
          ELSE FallbackResponse)
  ELSE IF ~wellFormed THEN FallbackResponse
  ELSE AnalysisResponse

\* part_001 lines 394-569: the handler from retryFetch's settling on
ServeAfterFetch ==
  /\ step = "fetched"
  /\ \E mentionsQuota \in BOOLEAN, wellFormed \in BOOLEAN :
       response' = AfterOpenAI(fetchSettled[1], mentionsQuota, wellFormed)
  /\ step' = "responded"
  /\ UNCHANGED <<req, secrets, retries, delay, fetched, waited, fetchSettled>>
  /\ UNCHANGED <<detectorVars, hookVars, pageVars>>

\* index.ts lines 11-144.  fetchThrows: the call to Hugging Face throws;
\* ok: its response has a 2xx status; parses: the response body is JSON
HuggingFace(fetchThrows, ok, parses) ==
  IF req.method = "OPTIONS" THEN Preflight
  ELSE IF req.method # "POST" THEN ErrorResponse(405)
  ELSE IF ~secrets.HUGGINGFACE_API_KEY THEN ErrorResponse(500)
  ELSE IF req.body \in {"unparsable", "null"} THEN ErrorResponse(500)
  ELSE IF req.body = "empty" THEN ErrorResponse(400)
  ELSE IF fetchThrows \/ ~ok \/ ~parses THEN ErrorResponse(500)
  ELSE AnalysisResponse

\* index.ts lines 11-144: the whole handler
ServeHuggingFace ==
  /\ step = "received"
  /\ req.handler = "index.ts"
  /\ \E fetchThrows \in BOOLEAN, ok \in BOOLEAN, parses \in BOOLEAN :
       response' = HuggingFace(fetchThrows, ok, parses)
  /\ step' = "responded"
  /\ UNCHANGED <<req, secrets, retries, delay, fetched, waited, fetchSettled>>
  /\ UNCHANGED <<detectorVars, hookVars, pageVars>>

NextEdge ==
  \/ Serve
  \/ Attempt
  \/ Timeout
  \/ ServeAfterFetch
  \/ ServeHuggingFace

SpecEdge == InitEdge /\ [][NextEdge]_vars

\* Every fetch settles and every timer fires
SpecEdgeFair == SpecEdge /\ WF_vars(Attempt) /\ WF_vars(Timeout)

(***************************************************************************)
(* useDeepfakeDetector.  analyze sets the state, runs the analysis inside  *)
(* the promise's executor (part_001 lines 731-820: the promise is settled  *)
(* when analyzeImageForDeepfake returns it) and continues after its await  *)
(* in a microtask; microtasks run in the order they were queued.           *)
(***************************************************************************)
\* the analyze calls a behaviour makes
MaxStarted == 3

\* what analyzeImageForDeepfake settles its promise with: a result, the Error
\* of part_001 line 735, or a thrown value that is not an Error (the other
\* branch of useDeepfakeDetector.ts line 25)
Outcomes ==
  {[rejected |-> FALSE, value |-> Combine(0, 0, 0, 0)],
   [rejected |-> FALSE, value |-> Combine(Scale, Scale, Scale, Scale)],
   [rejected |-> TRUE,
    value |-> [isError |-> TRUE, message |-> "Could not get 2D canvas context"]],
   [rejected |-> TRUE, value |-> [isError |-> FALSE, message |-> ""]]}

InitHook ==
  /\ state = InitialState
  /\ microtasks = <<>>
  /\ settled = <<>>
  /\ DetectorIdle
  /\ EdgeIdle
  /\ PageIdle

\* the calls started so far
Started == Len(settled) + Len(microtasks)

\* analyze writing isAnalyzing into the state it finds (the variant C24's
\* formula is tried against)
analyzeKeepingOutcome ==
  /\ Started < MaxStarted
  /\ state' = [state EXCEPT !.isAnalyzing = TRUE]
  /\ \E outcome \in Outcomes :
       microtasks' = Append(microtasks, [call |-> Started + 1, outcome |-> outcome])
  /\ UNCHANGED settled
  /\ UNCHANGED <<detectorVars, edgeVars, pageVars>>

\* lines 17-21: analyze up to its await
analyze ==
  /\ Started < MaxStarted
  /\ state' = [isAnalyzing |-> TRUE, result |-> Null, error |-> Null]
  /\ \E outcome \in Outcomes :
       microtasks' = Append(microtasks, [call |-> Started + 1, outcome |-> outcome])
  /\ UNCHANGED settled
  /\ UNCHANGED <<detectorVars, edgeVars, pageVars>>

\* err.message whatever err is (the variant C25's formula is tried against)
errorMessageOfAny(err) == err.message

\* line 25
errorMessage(err) ==
  IF err.isError THEN err.message ELSE "Unknown error during analysis"

\* lines 22-23 and 24-27: analyze from its await on, for the call that has
\* waited longest
Continue ==
  /\ microtasks # <<>>
  /\ LET task == Head(microtasks)
     IN IF ~task.outcome.rejected
        THEN /\ state' = [isAnalyzing |-> FALSE,
                          result |-> NonNull(task.outcome.value), error |-> Null]
             /\ settled' = Append(settled, [call |-> task.call, threw |-> FALSE,
                                             value |-> task.outcome.value])
        ELSE /\ state' = [isAnalyzing |-> FALSE, result |-> Null,
                          error |-> NonNull(errorMessage(task.outcome.value))]
             /\ settled' = Append(settled, [call |-> task.call, threw |-> TRUE,
                                             value |-> task.outcome.value])
  /\ microtasks' = Tail(microtasks)
  /\ UNCHANGED <<detectorVars, edgeVars, pageVars>>

NextHook ==
  \/ analyze
  \/ Continue

SpecHook == InitHook /\ [][NextHook]_vars

(***************************************************************************)
(* ProfileGuardScanner.  The form's fields and its button are disabled     *)
(* while scanning is true (lines 449-500), the questionnaire and the       *)
(* result are rendered only while it is false (lines 521-567).  The state  *)
(* updates handleScan makes after its await are taken as one step: until   *)
(* the last of them scanning is true, in whatever order they are rendered. *)
(***************************************************************************)
\* what is typed into the profile field; privatePattern (line 311) and the
\* username pattern (line 111) as tables over these
Inputs ==
  {"", "alice", "bot__2024", "private_account", "instagram.com/Locked_one"}

privatePattern(input) ==
  input \in {"private_account", "instagram.com/Locked_one"}

UsernameIsBotLike(username) == username \in {"bot__2024"}

\* Number(e.target.value) of the followers and posts fields
FollowerCounts == {0, 50, 1001}

PostCounts == {0, 3, 5}

\* what is typed into the bio field; the pattern of line 105 and that of
\* line 289 as tables over these
Bios ==
  {"", "dm me", "crypto investment tips", "telegram: @someone",
   "I love hiking and photography"}

BioHasBait(bio) == bio \in {"dm me", "telegram: @someone"}

BioHasKeywords(bio) == bio \in {"dm me", "crypto investment tips"}

\* lines 318 and 335; both include "randomuser" (line 117)
PrivatePicture == "https://randomuser.me/api/portraits/women/65.jpg"

GeneratedPicture == "https://randomuser.me/api/portraits/lego/1.jpg"

PictureIsStock(picture) == picture \in {PrivatePicture, GeneratedPicture}

\* reasons.join(separator)
RECURSIVE JoinWith(_, _)
JoinWith(reasons, separator) ==
  IF reasons = <<>> THEN ""
  ELSE IF Len(reasons) = 1 THEN reasons[1]
  ELSE reasons[1] \o separator \o JoinWith(Tail(reasons), separator)

\* the reasons pushed: those of the rules that apply, in order
Pushed(rules) == SelectSeq(rules, LAMBDA rule : rule.applies)

RECURSIVE Total(_)
Total(rules) ==
  IF rules = <<>> THEN 0 ELSE rules[1].score + Total(Tail(rules))

\* lines 124-127 and 180-183
VerdictOf(score) ==
  IF score >= 4 THEN "Likely Fake"
  ELSE IF score >= 2 THEN "Suspicious"
  ELSE "Real"

\* lines 88-120: the rules of analyzePublicProfile, each with whether it
\* applies to the profile
analyzePublicProfileRules(profile) ==
  LET counted == profile.followers # Null /\ profile.posts # Null
      low == counted /\ profile.followers[1] < 50 /\ profile.posts[1] < 5
  IN <<[applies |-> low, score |-> 2, reason |-> "Very low followers and posts."],
       [applies |-> counted /\ ~low /\ profile.followers[1] > 1000
                      /\ profile.posts[1] < 3,
        score |-> 1, reason |-> "High followers but almost no posts."],
       [applies |-> profile.bio = "" \/ Len(profile.bio) < 10,
        score |-> 1, reason |-> "Empty or very short bio."],
       [applies |-> BioHasBait(profile.bio),
        score |-> 2, reason |-> "Bio contains common bait or redirect phrases."],
       [applies |-> UsernameIsBotLike(profile.username),
        score |-> 1, reason |-> "Username has bot-like patterns."],
       [applies |-> PictureIsStock(profile.picture),
        score |-> 1, reason |-> "Profile image appears auto-generated or stock."]>>

\* lines 84-145
analyzePublicProfile(profile) ==
  LET reasons == Pushed(analyzePublicProfileRules(profile))
      score == Min(Total(reasons), 5)
      verdict == VerdictOf(score)
      confidence == IF verdict = "Likely Fake" THEN 85 + score * 2
                    ELSE IF verdict = "Suspicious" THEN 65 + score * 3
                    ELSE 80 - score * 5
  IN [threatScore |-> score,
      verdict |-> verdict,
      confidence |-> Min(Max(confidence, 55), 98),
      explanation |-> IF Len(reasons) > 0
                      THEN JoinWith([i \in 1..Len(reasons) |-> reasons[i].reason], " ")
                      ELSE "No strong red flags detected from public signals."]

\* lines 38-80: the keys of QUESTIONNAIRE in its order
QUESTIONNAIRE ==
  <<"userKnowsThem", "profilePicFeelsFake", "hasWeirdMessages",
    "requestsSensitiveInfo", "seemsToTargetWomen">>

AnswerValues == {"yes", "no"}

\* complete answers
QuestionnaireAnswers ==
  [{QUESTIONNAIRE[i] : i \in 1..Len(QUESTIONNAIRE)} -> AnswerValues]

\* lines 149-196
analyzePrivateAnswers(answers) ==
  LET reasons ==
        Pushed(<<[applies |-> answers["userKnowsThem"] = "no", score |-> 1,
                  reason |-> "You do not know this person personally."],
                 [applies |-> answers["profilePicFeelsFake"] = "yes", score |-> 2,
                  reason |-> "Profile photo appears AI-generated or inconsistent."],
                 [applies |-> answers["hasWeirdMessages"] = "yes", score |-> 2,
                  reason |-> "Odd or manipulative messages detected."],
                 [applies |-> answers["requestsSensitiveInfo"] = "yes", score |-> 3,
                  reason |-> "Requests for money or private information (high risk)."],
                 [applies |-> answers["seemsToTargetWomen"] = "yes", score |-> 1,
                  reason |-> "Account appears to disproportionately target women."]>>)
      score == Min(Total(reasons), 5)
      verdict == VerdictOf(score)
  IN [threatScore |-> score,
      verdict |-> verdict,
      confidence |-> IF verdict = "Likely Fake" THEN 90
                     ELSE IF verdict = "Suspicious" THEN 70 ELSE 85,
      explanation |-> IF Len(reasons) > 0
                      THEN JoinWith([i \in 1..Len(reasons) |-> reasons[i].reason], " ")
                      ELSE "No major warning signals based on your responses."]

\* lines 269-307: the result handleScan computes itself before it waits
InlineResult(followers, posts, bio) ==
  LET reasons ==
        Pushed(<<[applies |-> followers < 50 /\ posts < 5, score |-> 2,
                  reason |-> "Very low followers and posts"],
                 [applies |-> followers > 1000 /\ posts < 3, score |-> 1,
                  reason |-> "High followers but almost no posts"],
                 [applies |-> bio = "" \/ Len(bio) < 10, score |-> 1,
                  reason |-> "Very short or empty bio"],
                 [applies |-> BioHasKeywords(bio), score |-> 2,
                  reason |-> "Suspicious keywords in bio"]>>)
      threatScore == Total(reasons)
  IN [threatScore |-> threatScore,
      verdict |-> IF threatScore >= 5 THEN "Likely Fake"
                  ELSE IF threatScore >= 3 THEN "Suspicious"
                  ELSE "Real",
      confidence |-> Min(100, threatScore * 20),
      explanation |-> JoinWith([i \in 1..Len(reasons) |-> reasons[i].reason], ", ")]

\* lines 229-245, the state of the scan
resetAll(s) ==
  [s EXCEPT !.scanning = FALSE, !.profile = Null, !.result = Null,
            !.isPrivate = FALSE, !.showQuestionnaire = FALSE,
            !.answers = <<>>, !.questionIdx = 0]

InitPage ==
  /\ scanner = InitialScanner
  /\ timer = <<>>
  /\ DetectorIdle
  /\ EdgeIdle
  /\ HookIdle

\* line 445 and the effect of lines 247-249
setInput ==
  /\ ~scanner.scanning
  /\ \E value \in Inputs \ {scanner.input} :
       scanner' = resetAll([scanner EXCEPT !.input = value])
  /\ UNCHANGED timer
  /\ UNCHANGED <<detectorVars, edgeVars, hookVars>>

\* line 464
setFollowers ==
  /\ ~scanner.scanning
  /\ \E value \in FollowerCounts \ {scanner.followers} :
       scanner' = [scanner EXCEPT !.followers = value]
  /\ UNCHANGED timer
  /\ UNCHANGED <<detectorVars, edgeVars, hookVars>>

\* line 482
setPosts ==
  /\ ~scanner.scanning
  /\ \E value \in PostCounts \ {scanner.posts} :
       scanner' = [scanner EXCEPT !.posts = value]
  /\ UNCHANGED timer
  /\ UNCHANGED <<detectorVars, edgeVars, hookVars>>

\* line 492
setBio ==
  /\ ~scanner.scanning
  /\ \E value \in Bios \ {scanner.bio} :
       scanner' = [scanner EXCEPT !.bio = value]
  /\ UNCHANGED timer
  /\ UNCHANGED <<detectorVars, edgeVars, hookVars>>

\* lines 251-314: handleScan up to its await; the form is submitted only with
\* its button enabled and its required field filled (lines 448-500)
handleScan ==
  /\ ~scanner.scanning
  /\ scanner.input # ""
  /\ scanner' = [resetAll(scanner) EXCEPT
       !.scanning = TRUE,
       !.result = NonNull(InlineResult(scanner.followers, scanner.posts,
                                       scanner.bio))]
  /\ timer' = Append(timer, [input |-> scanner.input,
                             followers |-> scanner.followers,
                             posts |-> scanner.posts, bio |-> scanner.bio])
  /\ UNCHANGED <<detectorVars, edgeVars, hookVars>>

\* lines 316-330: the private branch, which returns before line 347
PrivateBranch(s, scan) ==
  [s EXCEPT !.profile = NonNull([picture |-> PrivatePicture,
                                 username |-> scan.input, followers |-> Null,
                                 posts |-> Null, bio |-> "", private |-> TRUE]),
            !.isPrivate = TRUE,
            !.showQuestionnaire = TRUE,
            !.result = Null]

\* the public branch leaving the result as it is (the variant C22's formula
\* is tried against)
PublicBranchKeepingResult(s, scan) ==
  [s EXCEPT !.profile = NonNull([picture |-> GeneratedPicture,
                                 username |-> scan.input,
                                 followers |-> NonNull(scan.followers),
                                 posts |-> NonNull(scan.posts),
                                 bio |-> scan.bio, private |-> FALSE]),
            !.isPrivate = FALSE,
            !.showQuestionnaire = FALSE,
            !.scanning = FALSE]

\* lines 331-347: the public branch and setScanning(false)
PublicBranch(s, scan) ==
  LET generatedProfile ==
        [picture |-> GeneratedPicture, username |-> scan.input,
         followers |-> NonNull(scan.followers), posts |-> NonNull(scan.posts),
         bio |-> scan.bio, private |-> FALSE]
  IN [s EXCEPT !.profile = NonNull(generatedProfile),
               !.result = NonNull(analyzePublicProfile(generatedProfile)),
               !.isPrivate = FALSE,
               !.showQuestionnaire = FALSE,
               !.scanning = FALSE]

\* lines 314-348: handleScan after its 1200 ms
ScanTimeout ==
  /\ timer # <<>>
  /\ LET scan == Head(timer)
     IN scanner' = (IF privatePattern(scan.input)
                    THEN PrivateBranch(scanner, scan)
                    ELSE PublicBranch(scanner, scan))
  /\ timer' = Tail(timer)
  /\ UNCHANGED <<detectorVars, edgeVars, hookVars>>

\* lines 350-362: handleAnswer on the state s.  Its buttons are rendered while
\* scanning is false and showQuestionnaire is true (lines 521-555)
handleAnswer(s, val) ==
  LET updated == (QUESTIONNAIRE[s.questionIdx + 1] :> val) @@ s.answers
  IN IF s.questionIdx < Len(QUESTIONNAIRE) - 1
     THEN [s EXCEPT !.answers = updated, !.questionIdx = s.questionIdx + 1]
     ELSE [s EXCEPT !.answers = updated, !.showQuestionnaire = FALSE,
                    !.result = NonNull(analyzePrivateAnswers(updated))]

NextPage ==
  \/ setInput
  \/ setFollowers
  \/ setPosts
  \/ setBio
  \/ handleScan
  \/ ScanTimeout

SpecPage == InitPage /\ [][NextPage]_vars

\* The timer of line 314 fires
SpecPageFair == SpecPage /\ WF_vars(ScanTimeout)

(***************************************************************************)
(* Properties of the results.                                              *)
(***************************************************************************)
Resolved == pc = "resolved"

\* the source is one colour throughout
IsUniform(img) ==
  img.paint \in {"grey", "rg", "mixed"} /\ img.noisy = 0 /\ img.marks = 0

GreyImage == Source(256, 256, "grey", Grey, 0, 0)

SineImage == Source(256, 256, "sine", Grey, 0, 0)

\* C1: the risk level of every result follows its reported confidence: high
\* iff confidence > 70, medium iff 40 < confidence <= 70, low iff
\* confidence <= 40.
RiskLevelFollowsReportedConfidence ==
  Resolved =>
    /\ (result.riskLevel = "high") <=> (result.confidence > 70)
    /\ (result.riskLevel = "medium") <=> (result.confidence > 40 /\ result.confidence <= 70)
    /\ (result.riskLevel = "low") <=> (result.confidence <= 40)

\* a result reporting confidence 70 with risk level high
ReportedSeventyIsHigh ==
  Resolved /\ result.confidence = 70 /\ result.riskLevel = "high"

\* C2: isFake of every result is true exactly when its reported confidence
\* is above 50.
IsFakeFollowsReportedConfidence ==
  Resolved => (result.isFake <=> result.confidence > 50)

\* a result reporting confidence 50 with isFake true
ReportedFiftyIsFake ==
  Resolved /\ result.confidence = 50 /\ result.isFake

\* C3: each of the four analyzer scores lies in [0, 1], and the confidence and
\* the four details values of the result are integers in 0..100.
ScoresInRange ==
  Resolved =>
    /\ frequencyAnomaly \in 0..Scale
    /\ compressionArtifacts \in 0..Scale
    /\ textureInconsistency \in 0..Scale
    /\ colorAnomalies \in 0..Scale
    /\ result.confidence \in 0..100
    /\ \A d \in DOMAIN result.details : result.details[d] \in 0..100

\* an analysis whose compression total passed 1 before the cap, with the
\* largest colour score there is
TotalAboveOne ==
  /\ Resolved
  /\ Cardinality(BoundaryPoints(width, height)) > 20
  /\ compressionArtifacts = Scale
  /\ colorAnomalies = 5 * (Scale \div 10)
  /\ result.details.compressionArtifacts = 100
  /\ result.riskLevel = "high"

\* C4: the 256x256 image of (128,128,128,255) pixels gets
\* details.frequencyAnomaly = 100, details.colorAnomalies >= 30 and risk
\* level high.
GreyImageIsHigh ==
  (Resolved /\ imageElement = GreyImage) =>
    /\ result.details.frequencyAnomaly = 100
    /\ result.details.colorAnomalies >= 30
    /\ result.riskLevel = "high"

\* the 256x256 grey image resolved with risk level medium
GreyImageIsMedium ==
  /\ Resolved
  /\ imageElement = GreyImage
  /\ result.details.frequencyAnomaly = 100
  /\ result.details.colorAnomalies = 30
  /\ result.confidence = 65
  /\ result.riskLevel = "medium"

\* the scanned 8x8 blocks and 64x64 regions of a w x h canvas
BlocksOf(w, h) == ((w - 1) \div blockSize) * ((h - 1) \div blockSize)

RegionsOf(w, h) == ((w - 1) \div regionSize) * ((h - 1) \div regionSize)

UniformImageIsTooCorrelated ==
  (Resolved /\ IsUniform(imageElement)) => colorAnomalies = 3 * (Scale \div 10)

\* a uniform black image scored as too independent
BlackImageIsTooIndependent ==
  /\ Resolved
  /\ IsUniform(imageElement)
  /\ imageElement.bg = Black
  /\ colorAnomalies = 2 * (Scale \div 10)

\* the luma block of the image img at (bx, by)
ImageBlock(img, bx, by) ==
  ArrayFrom(LAMBDA k :
              LET pixel == SourcePixel(img, bx + (k % blockSize), by + k \div blockSize)
              IN 299 * pixel[1] + 587 * pixel[2] + 114 * pixel[3],
            0, blockSize * blockSize - 1)

\* a block with variance of at least 0.01 and no periodicity
IsBusy(block) ==
  /\ ~RatLess(calculateVariance(block), RatOf(1, 100))
  /\ checkPeriodicity(block) = 0

\* every scanned block of the image img is busy
EveryBlockBusy(img) ==
  \A b \in ScannedBlocks(img.naturalWidth, img.naturalHeight) :
    IsBusy(ImageBlock(img, b[1], b[2]))

\* C7: when every scanned block of the image has variance of at least 0.01
\* and no periodicity, the frequency score is 0, the risk level low and isFake
\* false (stated as: a result that is not so has a block that is not busy).
BusyImageIsLow ==
  Resolved =>
    \/ /\ frequencyAnomaly = 0
       /\ result.riskLevel = "low"
       /\ ~result.isFake
    \/ ~EveryBlockBusy(imageElement)

\* an image of busy blocks on which the compression and the colour analyzers
\* return their largest scores
BusyImageWithArtifacts ==
  /\ Resolved
  /\ ScannedBlocks(width, height) # {}
  /\ RegionsOf(width, height) > 0
  /\ frequencyAnomaly = 0
  /\ compressionArtifacts = Scale
  /\ colorAnomalies = 5 * (Scale \div 10)
  /\ result.riskLevel = "low"
  /\ EveryBlockBusy(imageElement)

\* C8: the 256x256 sinusoidal `ai` image gets a non-zero frequencyAnomaly, a
\* non-zero colorAnomalies and risk level high.
SineImageIsHigh ==
  (Resolved /\ imageElement = SineImage) =>
    /\ result.details.frequencyAnomaly > 0
    /\ result.details.colorAnomalies > 0
    /\ result.riskLevel = "high"

\* the sinusoidal image resolved with risk level medium
SineImageIsMedium ==
  /\ Resolved
  /\ imageElement = SineImage
  /\ result.details.frequencyAnomaly = 100
  /\ result.details.compressionArtifacts = 0
  /\ result.details.colorAnomalies = 30
  /\ result.confidence = 55
  /\ result.riskLevel = "medium"

\* no block, no boundary point and no region of the canvas is scanned
NothingScanned ==
  /\ ScannedBlocks(width, height) = {}
  /\ BoundaryPoints(width, height) = {}
  /\ RegionsOf(width, height) = 0

\* C9: when nothing of the pixel buffer is scanned, all four analyzer scores
\* are 0 and the result has confidence 0, risk level low and isFake false.
NothingScannedScoresZero ==
  (Resolved /\ NothingScanned) =>
    /\ frequencyAnomaly = 0
    /\ compressionArtifacts = 0
    /\ textureInconsistency = 0
    /\ colorAnomalies = 0
    /\ result.confidence = 0
    /\ result.riskLevel = "low"
    /\ ~result.isFake

\* a one-pixel image resolved with a texture and a colour score
OnePixelImageScores ==
  /\ Resolved
  /\ width = 1
  /\ height = 1
  /\ textureInconsistency = 2 * (Scale \div 10)
  /\ colorAnomalies = 2 * (Scale \div 10)
  /\ result.confidence = 8

Settled == pc \in {"resolved", "rejected"}

\* a DeepfakeAnalysisResult with every field set
IsComplete(r) ==
  /\ r.isFake \in BOOLEAN
  /\ r.confidence \in 0..100
  /\ r.riskLevel \in {"low", "medium", "high"}
  /\ \A d \in {"frequencyAnomaly", "compressionArtifacts",
               "textureInconsistency", "colorAnomalies"} : r.details[d] \in 0..100

Weighted == 35 * frequencyAnomaly + 25 * compressionArtifacts
              + 25 * textureInconsistency + 15 * colorAnomalies

\* v rounded to the nearest integer, halves upwards
Nearest(v) == IF 2 * (v % Scale) >= Scale THEN v \div Scale + 1 ELSE v \div Scale

\* C12: combinedScore is 0.35 f + 0.25 c + 0.25 t + 0.15 k with weights that
\* sum to 1, so it lies in [0, 1]; the reported confidence is
\* round(min(100, max(0, combinedScore * 100))) and each details value is its
\* analyzer's score times 100, rounded.
ConfidenceIsRoundedWeightedSum ==
  Resolved =>
    /\ 35 + 25 + 25 + 15 = 100
    /\ Weighted \in 0..(100 * Scale)
    /\ result.confidence = Nearest(Min(100 * Scale, Max(0, Weighted)))
    /\ result.details.frequencyAnomaly = Nearest(100 * frequencyAnomaly)
    /\ result.details.compressionArtifacts = Nearest(100 * compressionArtifacts)
    /\ result.details.textureInconsistency = Nearest(100 * textureInconsistency)
    /\ result.details.colorAnomalies = Nearest(100 * colorAnomalies)

\* a result whose confidence was rounded down from a weighted sum with a
\* fraction, all four scores contributing
FractionRoundedDown ==
  /\ Resolved
  /\ Weighted % Scale > 0
  /\ 2 * (Weighted % Scale) < Scale
  /\ result.confidence = Weighted \div Scale
  /\ frequencyAnomaly > 0
  /\ compressionArtifacts > 0
  /\ textureInconsistency > 0
  /\ colorAnomalies > 0

(***************************************************************************)
(* Properties of the analyzers, on the buffers of SpecAnalyzers.           *)
(***************************************************************************)
\* the four analyzers have returned and their scores are combined
Joined == pc = "joined"

\* C13: both scans visit every tile that lies fully inside the image: the
\* frequency analyzer floor(w/8) * floor(h/8) blocks and the texture analyzer
\* floor(w/64) * floor(h/64) regions, so that on a uniform image every full
\* block adds its 0.01 and every full region its 0.1.
ScansEveryFullTile ==
  Joined =>
    /\ Cardinality(ScannedBlocks(width, height))
         = (width \div blockSize) * (height \div blockSize)
    /\ Cardinality(ScannedRegions(width, height))
         = (width \div regionSize) * (height \div regionSize)
    /\ IsUniform(imageElement) =>
         /\ frequencyAnomaly
              = Min(Scale, (width \div blockSize) * (height \div blockSize) * (Scale \div 100))
         /\ textureInconsistency
              = Min(Scale, ((width \div regionSize) * (height \div regionSize) + 2)
                             * (Scale \div 10))

\* the uniform 64x64 image: 49 of its 64 blocks and none of its one region
\* are scanned
FullTilesNotScanned ==
  /\ Joined
  /\ IsUniform(imageElement)
  /\ width = regionSize
  /\ height = regionSize
  /\ Cardinality(ScannedBlocks(width, height)) = 49
  /\ ScannedRegions(width, height) = {}
  /\ frequencyAnomaly = 49 * (Scale \div 100)
  /\ textureInconsistency = 2 * (Scale \div 10)

\* the scanned blocks of the image img that are not busy: the blocks line 860
\* flags
FlaggedBlocks(img) ==
  Cardinality({b \in ScannedBlocks(img.naturalWidth, img.naturalHeight) :
                 ~IsBusy(ImageBlock(img, b[1], b[2]))})

MatchingPairs(values, p) ==
  Cardinality({i \in (p + 1)..Len(values) :
                 20 * Abs(values[i] - values[i - p]) < LumaUnit})

\* for some period p in 1..length/2 more than 80% of the pairs match
HasPeriod(values) ==
  \E p \in 1..(Len(values) \div 2) :
    5 * MatchingPairs(values, p) > 4 * (Len(values) - p)

\* checkPeriodicity of the block is 0.9 if it has a period and 0 if not
PeriodicityIsAsStated(block) ==
  checkPeriodicity(block) = (IF HasPeriod(block) THEN 9 * (Scale \div 10) ELSE 0)

\* the block has variance below 0.01 or periodicity above 0.7
AddsTenth(block) ==
  \/ RatLess(calculateVariance(block), RatOf(1, 100))
  \/ checkPeriodicity(block) > 7 * (Scale \div 10)

FrequencyRuleOn(luma) ==
  /\ \A b \in ScannedBlocks(width, height) :
       PeriodicityIsAsStated(BlockAt(luma, width, b[1], b[2]))
  /\ frequencyAnomaly
       = Min(Scale, (Cardinality({b \in ScannedBlocks(width, height) :
                                    AddsTenth(BlockAt(luma, width, b[1], b[2]))})
                       * (Scale \div 10)) \div 10)

\* C15: a scanned block adds 0.1 to the total iff its variance is below 0.01
\* or its periodicity above 0.7; checkPeriodicity of a block is 0.9 iff some
\* period p in 1..length/2 matches more than 80% of its pairs (i, i - p)
\* within 0.05, and 0 otherwise; the score is min(1, total / 10).
FrequencyRule == Joined => FrequencyRuleOn(LumaOf(pixels))

\* every scanned block of the image is periodic with variance of at least 0.01
EveryBlockPeriodicOnly(img) ==
  \A b \in ScannedBlocks(img.naturalWidth, img.naturalHeight) :
    /\ ~RatLess(calculateVariance(ImageBlock(img, b[1], b[2])), RatOf(1, 100))
    /\ HasPeriod(ImageBlock(img, b[1], b[2]))

\* a striped image: its four scanned blocks are flagged for their period alone
StripedBlocksFlagged ==
  /\ Joined
  /\ Cardinality(ScannedBlocks(width, height)) = 4
  /\ EveryBlockPeriodicOnly(imageElement)
  /\ frequencyAnomaly = 4 * (Scale \div 100)

\* the positive multiples of 8 below n
GridLines(n) == {k \in 1..(n - 1) : k % 8 = 0}

\* the 4 values of the row-major luma array from (row, column) on: they run
\* on into the next row where the row ends, and are undefined past the array
FourFrom(gray, row, column) ==
  <<At(gray, row * width + column), At(gray, row * width + column + 1),
    At(gray, row * width + column + 2), At(gray, row * width + column + 3)>>

\* the absolute difference of the variances of the values at row by and at
\* row by + 2 exceeds 0.05 (never so when a value is undefined)
AddsTwentieth(gray, bx, by) ==
  RatLess(RatOf(5, 100),
          RatAbsDiff(calculateVariance(FourFrom(gray, by, bx)),
                     calculateVariance(FourFrom(gray, by + 2, bx))))

FlaggedPoints(gray) ==
  Cardinality({g \in GridLines(width) \X GridLines(height) :
                 AddsTwentieth(gray, g[1], g[2])})

\* the 4 values of row `row` of the image from column `column` on, undefined
\* where the row ends or lies outside the image
FourInRow(gray, row, column) ==
  LET LumaAt(x) == IF row < height /\ x < width THEN At(gray, row * width + x)
                   ELSE Undefined
  IN <<LumaAt(column), LumaAt(column + 1), LumaAt(column + 2), LumaAt(column + 3)>>

FlaggedPointsInRows(gray) ==
  Cardinality({g \in GridLines(width) \X GridLines(height) :
                 RatLess(RatOf(5, 100),
                         RatAbsDiff(calculateVariance(FourInRow(gray, g[2], g[1])),
                                    calculateVariance(FourInRow(gray, g[2] + 2, g[1]))))})

EdgesInside(region) ==
  Cardinality({rc \in (0..(regionSize - 1)) \X (1..(regionSize - 2)) :
                 10 * Abs(region[rc[1] * regionSize + rc[2] + 1]
                            - region[rc[1] * regionSize + rc[2]]) > LumaUnit})

\* the region has variance below 0.01 and fewer than 32 edges
AddsTenthOfRegion(region) ==
  /\ RatLess(calculateVariance(region), RatOf(1, 100))
  /\ EdgesInside(region) < 32

TextureRuleOn(gray) ==
  LET cols == Cardinality(Steps(0, width - regionSize, regionSize))
      count == Cardinality(ScannedRegions(width, height))
      Region(j) == RegionAt(gray, width, regionSize * (j % cols), regionSize * (j \div cols))
      smooth == Cardinality({j \in 0..(count - 1) : AddsTenthOfRegion(Region(j))})
      variances == ArrayFrom(LAMBDA j : calculateVariance(Region(j)), 0, count - 1)
      flat == IF RatLess(calculateVarianceOfVariances(variances), RatOf(2, 100))
              THEN 2 * (Scale \div 10)
              ELSE 0
  IN /\ \A j \in 0..(count - 1) :
          countEdges(Region(j), regionSize) = EdgesInside(Region(j))
     /\ textureInconsistency = Min(Scale, smooth * (Scale \div 10) + flat)

\* C17: analyzeTextureConsistency adds 0.1 for each scanned region with
\* variance below 0.01 and edge count below 32, then 0.2 iff the variance of
\* the regions' variances is below 0.02, and returns min(1, total); countEdges
\* counts the pixels that differ from their left neighbour by more than 0.1
\* and never a pixel of column 0 or column 63.
TextureRule == Joined => TextureRuleOn(LumaOf(pixels))

\* the rows of the first region whose pixel in column 63 differs from its
\* left neighbour by more than 0.1
LastColumnSteps(gray) ==
  Cardinality({r \in 0..(regionSize - 1) :
                 10 * Abs(gray[r * width + regionSize] - gray[r * width + regionSize - 1])
                   > LumaUnit})

\* a region with 32 steps into its last column and no edge counted, which
\* adds its 0.1
LastColumnNotCounted ==
  /\ Joined
  /\ Cardinality(ScannedRegions(width, height)) = 1
  /\ LastColumnSteps(LumaOf(pixels)) = 32
  /\ EdgesInside(RegionAt(LumaOf(pixels), width, 0, 0)) = 0
  /\ textureInconsistency = 3 * (Scale \div 10)

\* channel c (1 red, 2 green, 3 blue) of the first n pixels of a buffer
Channel(data, c, n) == ArrayFrom(LAMBDA i : data[4 * i + c], 0, n - 1)

\* the score the colour rules give to three correlations (squared): 0.3 when
\* one exceeds 0.95, plus 0.2 when one is below 0.3
ColorRuleOf(rg, rb, gb) ==
  (IF \E c \in {rg, rb, gb} : CorrAbove(c, 95, 100) THEN 3 * (Scale \div 10) ELSE 0)
    + (IF \E c \in {rg, rb, gb} : CorrBelow(c, 3, 10) THEN 2 * (Scale \div 10) ELSE 0)

ColorRuleOn(r, g, b) ==
  ColorRuleOf(calculateCorrelation(r, g), calculateCorrelation(r, b),
              calculateCorrelation(g, b))

\* the score of the first min(pixelCount, 1000) pixels of the buffer
ColorOfHead(data) ==
  ColorRuleOn(Channel(data, 1, Min(Len(data) \div 4, 1000)),
              Channel(data, 2, Min(Len(data) \div 4, 1000)),
              Channel(data, 3, Min(Len(data) \div 4, 1000)))

\* the buffer with every pixel after the first 1000 set to opaque white
WhitenedTail(data) ==
  ArrayFrom(LAMBDA i : IF i <= 4000 THEN data[i] ELSE 255, 1, Len(data))

\* C18: detectColorAnomalies uses the first min(pixelCount, 1000) pixels
\* only, adds 0.3 iff one of the three correlations exceeds 0.95 and 0.2 iff
\* one is below 0.3, so its score is one of 0, 0.2, 0.3, 0.5, and the pixels
\* after the first 1000 do not change it.
ColorRule ==
  Joined =>
    /\ colorAnomalies = ColorOfHead(pixels)
    /\ colorAnomalies \in {0, 2 * (Scale \div 10), 3 * (Scale \div 10), 5 * (Scale \div 10)}
    /\ colorAnomalies = detectColorAnomalies(WhitenedTail(pixels))

\* an image of more than 1000 pixels whose pixels after the first 1000 differ
\* from the first ones, with both increments applied
BothIncrementsOnHead ==
  /\ Joined
  /\ Len(pixels) > 4000
  /\ WhitenedTail(pixels) # pixels
  /\ colorAnomalies = 5 * (Scale \div 10)

(***************************************************************************)
(* Properties of the sampler, on the sources of SpecSampler.               *)
(***************************************************************************)
Sampled == pc = "sampled"

\* the source has an intrinsic width and height
ExposesSize(img) == img.naturalWidth > 0 /\ img.naturalHeight > 0

\* C19: the buffer has width * height * 4 elements; the canvas has the
\* intrinsic size of the source when the source has one, and is 512 x 512
\* when it has none; no other size is used.
SampledAtIntrinsicSizeOr512 ==
  Sampled =>
    /\ Length(ImageData(imageElement, width, height)) = width * height * 4
    /\ ExposesSize(imageElement) =>
         (width = imageElement.naturalWidth /\ height = imageElement.naturalHeight)
    /\ ~ExposesSize(imageElement) => (width = 512 /\ height = 512)

\* an image element that has not loaded, sampled on a 256 x 256 canvas
NotLoadedSampledAt256 ==
  /\ Sampled
  /\ imageElement = NotLoaded
  /\ width = 256
  /\ height = 256
  /\ Length(ImageData(imageElement, width, height)) = 256 * 256 * 4

(***************************************************************************)
(* The analyzers in any order.                                             *)
(***************************************************************************)
\* the four scores of the sequential run of lines 755-767 on a buffer
SequentialScores(data, w, h) ==
  <<analyzeFrequencyDomain(data, w, h), detectCompressionArtifacts(data, w, h),
    analyzeTextureConsistency(data, w, h), detectColorAnomalies(data)>>

\* the state holds the buffer, the scores and the result of the sequential run
\* on the buffer sampled from the image
AgreesWithSequentialRun(data, scores) ==
  /\ pixels = data
  /\ <<frequencyAnomaly, compressionArtifacts, textureInconsistency, colorAnomalies>>
       = scores
  /\ result = Combine(scores[1], scores[2], scores[3], scores[4])

\* a score that has been returned
Returned(score) == score # Undefined

Responded == step = "responded"

\* the headers carry every CORS header with its value
CarriesCors(headers) ==
  \A name \in DOMAIN corsHeaders :
    name \in DOMAIN headers /\ headers[name] = corsHeaders[name]

\* C21: every response of the facial-recognition edge function, in either
\* version of its handler, carries the CORS headers: the preflight answer, the
\* 405 to a method other than POST, the 500 for a missing secret, the answer to
\* a body that cannot be parsed or has no imageUrl, the analysis, the fallback
\* analysis and the answer of the outer catch; and the handler gives a response
\* on every path.
EveryResponseCarriesCors ==
  /\ Responded <=> response # Null
  /\ response # Null => CarriesCors(response[1].headers)
  /\ (Responded /\ req.method = "OPTIONS") => response = Preflight
  /\ (Responded /\ req.method = "GET") => response = ErrorResponse(405)

\* index.ts has answered a POST whose body is not JSON: req.json() throws
\* into the outer catch, which answers 500
CaughtErrorAnswered ==
  /\ Responded
  /\ req.handler = "index.ts"
  /\ req.method = "POST"
  /\ secrets.HUGGINGFACE_API_KEY
  /\ req.body = "unparsable"
  /\ response[1].status = 500

Last(s) == s[Len(s)]

\* what retryFetch has done so far is in order: at most three fetches, one
\* wait before each fetch after the first, of 1000 ms and then 2000 ms; every
\* fetch that was followed by another gave 429 or threw; and what retryFetch
\* returned or threw is what its last fetch gave
RetryFetchInOrder ==
  /\ Len(fetched) <= MAX_RETRIES + 1
  /\ \A i \in 1..Len(waited) : waited[i] = RETRY_DELAY * 2 ^ (i - 1)
  /\ step \in {"fetching", "received"} => Len(waited) = Len(fetched)
  /\ step \in {"waiting", "fetched"} => Len(waited) = Len(fetched) - 1
  /\ \A i \in 1..Len(fetched) :
       (i < Len(fetched) \/ step = "waiting")
         => (fetched[i].threw \/ fetched[i].status = 429)
  /\ step = "fetched" =>
       /\ fetchSettled = NonNull(Last(fetched))
       /\ (~Last(fetched).threw /\ Last(fetched).status = 429)
            => Len(fetched) = MAX_RETRIES + 1
       /\ Last(fetched).threw =>
            /\ Len(fetched) = MAX_RETRIES + 1
            /\ Last(fetched).attempt = MAX_RETRIES + 1
  /\ step # "fetched" /\ step # "responded" => fetchSettled = Null

\* C28: retryFetch ends after at most 3 fetches (the first and MAX_RETRIES = 2
\* more), waits 1000 ms before the second and 2000 ms before the third, fetches
\* again only after a 429 or a thrown error, returns a response that is not 429
\* at once, returns the last response when that is still 429 after the third
\* fetch, and throws the last error when the third fetch throws.
RetryFetchTerminates ==
  /\ []RetryFetchInOrder
  /\ (step = "fetching") ~> (step = "fetched")

\* three fetches were rate limited: retryFetch waited 1000 ms and 2000 ms and
\* returned the third 429
ThirdRateLimitReturned ==
  /\ step = "fetched"
  /\ Len(fetched) = 3
  /\ \A i \in 1..3 : ~fetched[i].threw /\ fetched[i].status = 429
  /\ waited = <<1000, 2000>>
  /\ fetchSettled = NonNull([threw |-> FALSE, status |-> 429, attempt |-> 3])

(***************************************************************************)
(* The luma indexes detectCompressionArtifacts reads.                      *)
(***************************************************************************)
\* lines 895-906: the indexes of gray read at the grid point (bx, by)
ReadIndexesAt(w, bx, by) ==
  {by * w + (bx + i) : i \in 0..3} \cup {(by + 2) * w + (bx + i) : i \in 0..3}

\* lines 895-906: every index of gray the loops read
ReadIndexes(w, h) ==
  UNION {ReadIndexesAt(w, g[1], g[2]) : g \in BoundaryPoints(w, h)}

CompressionReturned == pc = "sampled" /\ compressionArtifacts # Undefined

\* C23: every luma index detectCompressionArtifacts reads lies in
\* [0, width*height), and at every grid point it visits the four samples of
\* row by and the four of row by + 2 lie in one image row: bx + 3 < width and
\* by + 2 < height.
ReadsStayInsideImage ==
  CompressionReturned =>
    /\ \A k \in ReadIndexes(width, height) : 0 <= k /\ k < width * height
    /\ \A g \in BoundaryPoints(width, height) :
         g[1] + 3 < width /\ g[2] + 2 < height

\* detectCompressionArtifacts has run on a 17x17 image: at the grid point
\* bx = 8, by = 16 it reads gray[314], past the 289 values of the image, and at
\* bx = 16, by = 8 its samples run from column 16 into the next row
ReadsOutsideImage ==
  /\ CompressionReturned
  /\ width = 17
  /\ height = 17
  /\ 18 * 17 + 8 \in ReadIndexes(width, height)
  /\ 18 * 17 + 8 >= width * height
  /\ <<16, 8>> \in BoundaryPoints(width, height)
  /\ 16 + 3 >= width
  /\ At(LumaOf(pixels), 18 * 17 + 8) = Undefined

(***************************************************************************)
(* The state of useDeepfakeDetector.                                       *)
(***************************************************************************)
\* C24: in every state of useDeepfakeDetector, whatever analyze calls have
\* succeeded or failed, result and error are not both set, and while
\* isAnalyzing is true both are null.
OutcomeIsExclusive ==
  /\ ~(state.result # Null /\ state.error # Null)
  /\ state.isAnalyzing => (state.result = Null /\ state.error = Null)

\* a call has failed after another had succeeded: the error is shown and the
\* earlier result is gone
FailedAfterSuccess ==
  /\ Len(settled) = 2
  /\ ~settled[1].threw
  /\ settled[2].threw
  /\ state.error = NonNull("Could not get 2D canvas context")
  /\ state.result = Null
  /\ ~state.isAnalyzing

\* C25: a call of analyze sets the state to {isAnalyzing: true, result: null,
\* error: null} when it starts; when its analysis resolves with r the state
\* becomes {isAnalyzing: false, result: r, error: null} and analyze returns r;
\* when it rejects with e the state becomes {isAnalyzing: false, result: null,
\* error: e.message, or 'Unknown error during analysis' when e is not an
\* Error} and analyze throws e.
AnalyzeContract ==
  [][/\ Len(microtasks') > Len(microtasks) =>
          /\ state' = [isAnalyzing |-> TRUE, result |-> Null, error |-> Null]
          /\ settled' = settled
     /\ Len(microtasks') < Len(microtasks) =>
          LET task == Head(microtasks)
              e == task.outcome.value
          IN /\ Len(settled') = Len(settled) + 1
             /\ settled'[Len(settled')].call = task.call
             /\ settled'[Len(settled')].value = task.outcome.value
             /\ settled'[Len(settled')].threw = task.outcome.rejected
             /\ ~task.outcome.rejected =>
                  state' = [isAnalyzing |-> FALSE,
                            result |-> NonNull(task.outcome.value),
                            error |-> Null]
             /\ task.outcome.rejected =>
                  state' = [isAnalyzing |-> FALSE, result |-> Null,
                            error |-> NonNull(IF e.isError THEN e.message
                                              ELSE "Unknown error during analysis")]
    ]_vars

\* a first call has thrown a value that is not an Error, and the only other
\* call has started since and cleared its message
StartedAfterUnknownError ==
  /\ Len(settled) = 1
  /\ settled[1].threw
  /\ ~settled[1].value.isError
  /\ settled[1].call = 1
  /\ Len(microtasks) = 1
  /\ microtasks[1].call = 2
  /\ state = [isAnalyzing |-> TRUE, result |-> Null, error |-> Null]

\* the outcome of the call started last, as the state shows it
OutcomeShown(entry) ==
  IF entry.threw
  THEN [isAnalyzing |-> FALSE, result |-> Null,
        error |-> NonNull(IF entry.value.isError THEN entry.value.message
                          ELSE "Unknown error during analysis")]
  ELSE [isAnalyzing |-> FALSE, result |-> NonNull(entry.value), error |-> Null]

\* C26: when analyze calls overlap, isAnalyzing is true in every state in
\* which some call has started and not settled, and once every call has
\* settled the state holds the outcome of the call that started last.
AnalyzingWhileAnyPending ==
  /\ microtasks # <<>> => state.isAnalyzing
  /\ (microtasks = <<>> /\ settled # <<>>) =>
       \E i \in 1..Len(settled) :
         /\ \A j \in 1..Len(settled) : settled[j].call <= settled[i].call
         /\ state = OutcomeShown(settled[i])

\* two calls were started together; the first has settled and set isAnalyzing
\* to false while the second has not settled
IdleWhileSecondPending ==
  /\ Len(settled) = 1
  /\ settled[1].call = 1
  /\ Len(microtasks) = 1
  /\ microtasks[1].call = 2
  /\ ~state.isAnalyzing
  /\ state.result # Null

(***************************************************************************)
(* The results ProfileGuardScanner shows and the end of its scans.         *)
(***************************************************************************)
\* lines 521 and 567: the result card is rendered
ResultVisible ==
  ~scanner.scanning /\ scanner.profile # Null /\ scanner.result # Null

\* lines 630-642: the score is an integer in 0..5 and the verdict is that of
\* the band the score card marks
InBands(r) ==
  /\ r.threatScore \in 0..5
  /\ (r.verdict = "Likely Fake") <=> (r.threatScore >= 4)
  /\ (r.verdict = "Suspicious") <=> (r.threatScore \in {2, 3})
  /\ (r.verdict = "Real") <=> (r.threatScore < 2)

\* every result handleScan can compute itself
InlineResults ==
  {InlineResult(f, p, b) : f \in FollowerCounts, p \in PostCounts, b \in Bios}

\* C22: whenever ProfileGuardScanner shows a result (scanning false, profile
\* and result set), its threatScore is an integer in 0..5 and its verdict is
\* 'Likely Fake' iff the score is 4 or 5, 'Suspicious' iff it is 2 or 3, 'Real'
\* iff it is below 2, as for every result of analyzePublicProfile and of
\* analyzePrivateAnswers; the result handleScan computes itself with the
\* thresholds 3 and 5 is never shown.
VisibleResultInBands ==
  /\ ResultVisible =>
       /\ InBands(scanner.result[1])
       /\ scanner.result[1] \notin InlineResults
       /\ scanner.result[1] = analyzePublicProfile(scanner.profile[1])
  /\ \A answers \in QuestionnaireAnswers : InBands(analyzePrivateAnswers(answers))

\* a scan has ended with a score of 4, 'Likely Fake', where the result
\* handleScan had computed itself was a score of 4 and 'Suspicious'
LikelyFakeShown ==
  /\ ResultVisible
  /\ scanner.result[1].threatScore = 4
  /\ scanner.result[1].verdict = "Likely Fake"
  /\ scanner.followers = scanner.profile[1].followers[1]
  /\ scanner.posts = scanner.profile[1].posts[1]
  /\ scanner.bio = scanner.profile[1].bio
  /\ InlineResult(scanner.followers, scanner.posts, scanner.bio).threatScore = 4
  /\ InlineResult(scanner.followers, scanner.posts, scanner.bio).verdict = "Suspicious"

\* the state after a scan of a private input, were scanning set to false
AfterPrivateScan(input) ==
  [PrivateBranch(resetAll([InitialScanner EXCEPT !.input = input]),
                 [input |-> input])
     EXCEPT !.scanning = FALSE]

\* handleAnswer on each of the given answers in order
RECURSIVE Answered(_, _)
Answered(s, vals) ==
  IF vals = <<>> THEN s ELSE Answered(handleAnswer(s, Head(vals)), Tail(vals))

\* C27: every scan handleScan starts ends with scanning = false; for an input
\* matching private|locked|restricted the questionnaire comes to be shown
\* (showQuestionnaire true while scanning is false); and once its five
\* questions are answered in order the result of analyzePrivateAnswers is set.
EveryScanEnds ==
  /\ scanner.scanning ~> ~scanner.scanning
  /\ (scanner.scanning /\ privatePattern(scanner.input))
       ~> (scanner.showQuestionnaire /\ ~scanner.scanning)
  /\ [](\A input \in {i \in Inputs : privatePattern(i)} :
          \A vals \in [1..Len(QUESTIONNAIRE) -> AnswerValues] :
            LET s == Answered(AfterPrivateScan(input), vals)
            IN /\ ~s.showQuestionnaire
               /\ s.answers \in QuestionnaireAnswers
               /\ s.result = NonNull(analyzePrivateAnswers(s.answers)))

\* the scan of a private input is over: handleScan has returned, the
\* questionnaire is asked for and scanning is still true, so the form stays
\* disabled and the questionnaire is not rendered
PrivateScanStuck ==
  /\ timer = <<>>
  /\ scanner.scanning
  /\ scanner.isPrivate
  /\ scanner.showQuestionnaire
  /\ scanner.result = Null
  /\ ~ENABLED NextPage

====
